---- MODULE Spec2Model ----
(***************************************************************************)
(* A model of memory-mcp: the hybrid search index (SearchEngine,           *)
(* LinkGraphManager), the backlink synchroniser (BacklinkManager), the     *)
(* MCP server's shutdown path, the tool execution runtime (executeTool),   *)
(* the UID generator, the PARA organizer (ParaManager), the vault         *)
(* watcher's debounce and the git snapshot hook.  Each subsystem has its   *)
(* own specification over the shared variables: SpecIndex, SpecLinks,      *)
(* SpecBatch, SpecGraph, SpecConnected, SpecOrphans, SpecSearch, SpecTool, *)
(* SpecBacklink, SpecDeletion, SpecSync, SpecShutdown, SpecUid, SpecPara,  *)
(* SpecVault, SpecDebounce, SpecSnapshot.                                  *)
(***************************************************************************)
EXTENDS Integers, Sequences, FiniteSets, Bags, TLC

VARIABLES
    \* ---- index database (packages/index-search) ----
    notes,          \* rows of table notes
    fts,            \* rows of virtual table notes_fts, a bag: no key is unique
    linkRows,       \* rows of table links
    lastOp,         \* the last SearchEngine call and what it returned
    \* ---- tool runtime (mcp-server tools registry) ----
    tool,           \* the executeTool call in progress
    handlers,       \* handler invocations, one per attempt
    toolLog,        \* structured log entries written through context.logger
    \* ---- backlink synchroniser (storage-md) and server process ----
    hdr,            \* front matter links of every note file in the vault
    pendingUpdates, \* BacklinkManager.pendingUpdates, in insertion order
    timer,          \* the debounce timer of debouncedSync is armed
    isInitialized,  \* BacklinkManager.isInitialized
    runners,        \* running processPendingUpdates / rebuildAllBacklinks calls
    syncs,          \* running syncBacklinksForNote calls
    cdn,            \* the running cleanupBacklinksForDeletedNote call
    serverPc,       \* the server process: running, closing, exited
    budget,         \* how many more events, failures and API calls may occur
    owed,           \* history: UIDs with an event and no sync started since
    sigPending,     \* history: UIDs pending at the signal, not synced since
    unlinkHandled,  \* history: the unlink event of the deleted note was handled
    \* ---- common utilities and PARA organiser ----
    uidGen,         \* generateUid: its counter, the clock and the last UID
    para,           \* a note file, the ParaManager config and its last call
    \* ---- vault watcher and git snapshot hook (storage-md) ----
    watch           \* debounce timers, events emitted, the snapshot in progress

indexVars == <<notes, fts, linkRows, lastOp>>
toolVars  == <<tool, handlers, toolLog>>
backlinkVars == <<hdr, pendingUpdates, timer, isInitialized, runners, syncs,
                  cdn, serverPc, budget, owed, sigPending, unlinkHandled>>
utilVars == <<uidGen, para, watch>>
vars == <<notes, fts, linkRows, lastOp, tool, handlers, toolLog,
          hdr, pendingUpdates, timer, isInitialized, runners, syncs,
          cdn, serverPc, budget, owed, sigPending, unlinkHandled,
          uidGen, para, watch>>

\* ------------------------------------------------------------------------
\* Bounds and small helpers
\* ------------------------------------------------------------------------

\* UIDs that occur as link targets; the notes handed to the index are NoteUids.
Uids == {"a", "b", "c"}

NoteUids == {"a", "b"}

Paths == {"p1", "p2"}

\* A note content is the sequence of UID tokens mentioned in its body.
Contents == {<<>>, <<"b", "b">>}

\* The header-declared links of a note handed to the index.
LinkLists == {<<>>, <<"a", "b">>, <<"c", "c">>}

Range(s) == {s[i] : i \in DOMAIN s}

Min(x, y) == IF x <= y THEN x ELSE y

Count(s, t) == Cardinality({i \in DOMAIN s : s[i] = t})

NoteInputs ==
    [id : NoteUids, filePath : Paths, content : Contents, links : LinkLists]

\* ------------------------------------------------------------------------
\* Vault and BacklinkManager configuration
\* ------------------------------------------------------------------------

\* The note files of the vault, in the order listMarkdownFiles returns them.
VaultOrder == <<"a", "b", "c">>

Vault == Range(VaultOrder)

\* A note that has been deleted from the vault; some notes still name it.
DeletedUid == "d"

\* The link targets written in each note's body, in order of appearance.
Body ==
    [u \in Vault |-> IF u = "a" THEN <<"b", "d", "b">>
                     ELSE IF u = "c" THEN <<"b", "a">> ELSE <<>>]

\* The front matter links of each note before any synchronisation.
InitialHeader ==
    [u \in Vault |-> IF u = "a" THEN <<"d">>
                     ELSE IF u = "c" THEN <<"b", "a">> ELSE <<>>]

\* The same front matter with the links of c written in another order.
ReorderedHeader == [InitialHeader EXCEPT !["c"] = <<"a", "b">>]

\* options.batchSize and options.concurrency the manager is constructed
\* with (when not given they are 10 and 5).
BatchSize == 2

Concurrency == 2

\* Concurrent processPendingUpdates / rebuildAllBacklinks calls followed.
MaxRunners == 2

\* Watcher add/change events delivered.
MaxEvents == 3

\* Note syncs that fail with an I/O error.
MaxFailures == 1

FreeRunner == [kind |-> "free", rest |-> <<>>, started |-> 0]

BacklinkIdleFrom(header) ==
    /\ hdr = header
    /\ pendingUpdates = <<>>
    /\ timer = FALSE
    /\ isInitialized = TRUE
    /\ runners = [r \in 1..MaxRunners |-> FreeRunner]
    /\ syncs = {}
    /\ cdn = [pc |-> "idle", idx |-> 0, snap |-> <<>>,
              affectedNotes |-> <<>>, emitted |-> <<>>]
    /\ serverPc = "running"
    /\ budget = [events |-> MaxEvents, failures |-> MaxFailures,
                 rebuilds |-> 1, cleanups |-> 1, deletions |-> 1]
    /\ owed = {}
    /\ sigPending = {}
    /\ unlinkHandled = FALSE

BacklinkIdle == BacklinkIdleFrom(InitialHeader)

\* generateUid has not been called and no note is being organised.
NoUid == [uidCounter |-> 0, now |-> 0, last |-> 0]

NoPara == [pc |-> "unused"]

NoWatch == [pc |-> "unused"]

UtilIdle == uidGen = NoUid /\ para = NoPara /\ watch = NoWatch

\* ------------------------------------------------------------------------
\* Index: SearchEngine / LinkGraphManager
\* ------------------------------------------------------------------------

MaxStrength == 10

\* The occurrence count used as a strength with no upper limit.
UncappedStrength(content, targetUid) ==
    IF Count(content, targetUid) > 0 THEN Count(content, targetUid) ELSE 1

\* calculateLinkStrength: occurrences of the target in the content, capped
\* at 10; 1 when the content does not mention it.
calculateLinkStrength(content, targetUid) ==
    IF Count(content, targetUid) > 0
    THEN Min(Count(content, targetUid), MaxStrength)
    ELSE 1

\* INSERT OR REPLACE INTO notes: uid is the primary key and file_path is
\* UNIQUE, so the new row replaces every row that conflicts on either.
upsertNoteMetadata(tbl, note) ==
    {r \in tbl : r.uid # note.id /\ r.file_path # note.filePath}
        \cup {[uid |-> note.id, file_path |-> note.filePath,
               content_hash |-> note.content]}

\* An INSERT into notes_fts that deletes nothing first.
FtsInsertOnly(tbl, note) ==
    tbl (+) SetToBag({[uid |-> note.id, content |-> note.content]})

\* FtsSearchEngine.updateNote: re-inserting a UID replaces the prior row.
ftsUpdateNote(tbl, note) ==
    [r \in {x \in DOMAIN tbl : x.uid # note.id} |-> tbl[r]]
        (+) SetToBag({[uid |-> note.id, content |-> note.content]})

\* FtsSearchEngine.removeNote
ftsRemoveNote(tbl, uid) == [r \in {x \in DOMAIN tbl : x.uid # uid} |-> tbl[r]]

\* LinkGraphManager.updateNoteLinks, the body of its transaction: delete
\* the rows of the source, insert one row per target other than the note.
updateNoteLinks(tbl, note, outboundLinks) ==
    {r \in tbl : r.source_uid # note.id}
        \cup {[source_uid |-> note.id, target_uid |-> t,
               strength |-> calculateLinkStrength(note.content, t)]
              : t \in Range(outboundLinks) \ {note.id}}

\* LinkGraphManager.removeNoteLinks: both directions.
removeNoteLinks(tbl, uid) ==
    {r \in tbl : r.source_uid # uid /\ r.target_uid # uid}

\* The record of a SearchEngine call: `again` says that the call before it
\* was the same call with the same argument and returned normally.
Called(op, arg, result) ==
    [op |-> op, note |-> arg, result |-> result,
     again |-> (lastOp.op = op /\ lastOp.note = arg /\ lastOp.result = "ok")]

NoCall == [op |-> "none", note |-> "none", result |-> "ok", again |-> FALSE]

\* Where a database statement of indexNote may throw.
FailPoints == {"none", "meta", "fts", "links"}

\* SearchEngine.indexNote.  upsertNoteMetadata and ftsEngine.updateNote
\* throw synchronously inside the transaction function, which rolls the
\* transaction back and makes indexNote throw SearchError.  updateNoteLinks
\* is an async method called without await: when its nested transaction
\* throws, the savepoint is rolled back and the method returns a rejected
\* promise, which the outer transaction function never sees; the outer
\* transaction commits and indexNote returns normally.
indexNote(note, fail) ==
    /\ IF fail \in {"meta", "fts"}
       THEN /\ UNCHANGED <<notes, fts, linkRows>>
            /\ lastOp' = Called("indexNote", note, "error")
       ELSE /\ notes' = upsertNoteMetadata(notes, note)
            /\ fts' = ftsUpdateNote(fts, note)
            /\ linkRows' = IF fail = "links"
                           THEN linkRows
                           ELSE updateNoteLinks(linkRows, note, note.links)
            /\ lastOp' = Called("indexNote", note, "ok")
    /\ UNCHANGED <<toolVars, backlinkVars, utilVars>>

\* SearchEngine.removeNote.  The DELETE on notes and ftsEngine.removeNote
\* throw synchronously and roll the transaction back; removeNoteLinks is an
\* async method called without await, so a failure of its nested
\* transaction is not seen by removeNote, which commits and returns.
removeNote(noteUid, fail) ==
    /\ IF fail \in {"meta", "fts"}
       THEN /\ UNCHANGED <<notes, fts, linkRows>>
            /\ lastOp' = Called("removeNote", noteUid, "error")
       ELSE /\ notes' = {r \in notes : r.uid # noteUid}
            /\ fts' = ftsRemoveNote(fts, noteUid)
            /\ linkRows' = IF fail = "links"
                           THEN linkRows
                           ELSE removeNoteLinks(linkRows, noteUid)
            /\ lastOp' = Called("removeNote", noteUid, "ok")
    /\ UNCHANGED <<toolVars, backlinkVars, utilVars>>

IndexNote == \E n \in NoteInputs, f \in FailPoints : indexNote(n, f)

RemoveNote == \E u \in Uids, f \in FailPoints : removeNote(u, f)

IndexInit ==
    /\ notes = {}
    /\ fts = EmptyBag
    /\ linkRows = {}
    /\ lastOp = NoCall

ToolIdle ==
    /\ tool = [pc |-> "idle"]
    /\ handlers = <<>>
    /\ toolLog = <<>>

InitIndex == IndexInit /\ ToolIdle /\ BacklinkIdle /\ UtilIdle

NextIndex == IndexNote \/ RemoveNote

SpecIndex == InitIndex /\ [][NextIndex]_vars

\* What the three tables hold for note n once indexNote(n) has taken effect.
NotesReflect(n) ==
    [uid |-> n.id, file_path |-> n.filePath, content_hash |-> n.content] \in notes

FtsReflects(n) ==
    /\ {r \in DOMAIN fts : r.uid = n.id} = {[uid |-> n.id, content |-> n.content]}
    /\ fts[[uid |-> n.id, content |-> n.content]] = 1

LinksReflect(n) ==
    {r.target_uid : r \in {x \in linkRows : x.source_uid = n.id}}
        = Range(n.links) \ {n.id}

\* C1: index_note(N) is atomic over the three tables: after every call
\* either the notes row, the FTS row and the outgoing link rows all reflect
\* N, or the call changed nothing (a failure of any step, the link update
\* included, rolls the others back).
C1_IndexNoteAtomic ==
    [][\A n \in NoteInputs :
          (lastOp'.op = "indexNote" /\ lastOp'.note = n) =>
              \/ (NotesReflect(n) /\ FtsReflects(n) /\ LinksReflect(n))'
              \/ UNCHANGED <<notes, fts, linkRows>>]_vars

\* The rows of the three tables that name uid.
RowsOf(uid) ==
    [notes |-> {r \in notes : r.uid = uid},
     fts |-> {r \in DOMAIN fts : r.uid = uid},
     links |-> {r \in linkRows : r.source_uid = uid \/ r.target_uid = uid}]

NoRows == [notes |-> {}, fts |-> {}, links |-> {}]

\* C13: after removeNote(uid) has returned, no notes row, FTS row or links
\* row (as source or as target) names uid.
C13_RemoveNoteLeavesNoRows ==
    (lastOp.op = "removeNote" /\ lastOp.result = "ok") =>
        RowsOf(lastOp.note) = NoRows

\* LinkGraphManager.findBacklinks(targetUid): the sources of the link rows
\* to targetUid whose source has a notes row (at most 50 of them).
findBacklinks(targetUid) ==
    {r.source_uid : r \in {x \in linkRows :
        /\ x.target_uid = targetUid
        /\ \E n \in notes : n.uid = x.source_uid}}

\* C14: after indexNote(N) has completed, N is among the backlinks of t
\* exactly when t is one of N's header links, for every UID t.
C14_BacklinksMatchHeaderLinks ==
    (lastOp.op = "indexNote" /\ lastOp.result = "ok") =>
        \A t \in Uids :
            lastOp.note.id \in findBacklinks(t) <=> t \in Range(lastOp.note.links)

\* The link rows a note should have: one per distinct header link other
\* than the note itself, with the strength of that target in the body.
ExpectedLinkRows(n) ==
    {[source_uid |-> n.id, target_uid |-> t,
      strength |-> IF Count(n.content, t) = 0 THEN 1
                   ELSE Min(Count(n.content, t), 10)]
        : t \in Range(n.links) \ {n.id}}

\* C15: a second indexNote(N) right after a first one leaves the notes row
\* and the FTS row as they are (one of each for N) and the link rows either
\* as they are or as a single indexNote(N) writes them.
C15_DoubleIndexIdempotent ==
    [][\A n \in NoteInputs :
          (/\ lastOp'.op = "indexNote" /\ lastOp'.note = n
           /\ lastOp'.result = "ok" /\ lastOp'.again)
          => /\ notes' = notes
             /\ fts' = fts
             /\ (NotesReflect(n) /\ FtsReflects(n))'
             /\ Cardinality({r \in notes' : r.uid = n.id}) = 1
             /\ {r \in linkRows' : r.source_uid # n.id}
                   = {r \in linkRows : r.source_uid # n.id}
             /\ \/ linkRows' = linkRows
                \/ {r \in linkRows' : r.source_uid = n.id} = ExpectedLinkRows(n)]_vars

C15_Witness ==
    /\ lastOp.op = "indexNote"
    /\ lastOp.result = "ok"
    /\ lastOp.again
    /\ lastOp.note.links = <<"a", "b">>
    /\ Cardinality(linkRows) >= 1

\* C16: removeNote(uid) for a UID that has no rows, or called a second time
\* in a row, returns normally and changes no table.
C16_RemoveNoteIdempotent ==
    [][\A u \in Uids :
          (/\ lastOp'.op = "removeNote" /\ lastOp'.note = u
           /\ lastOp'.result = "ok"
           /\ (RowsOf(u) = NoRows \/ lastOp'.again))
          => UNCHANGED <<notes, fts, linkRows>>]_vars

\* ---- LinkGraphManager called directly ----

\* A body that mentions b more often than the strength cap.
LongContent == [i \in 1..(MaxStrength + 1) |-> "b"]

LinkInputs ==
    [id : NoteUids, filePath : {"p1"}, content : Contents \cup {LongContent},
     links : LinkLists \cup {<<"b", "c">>}]

\* updateNoteLinks as a call of its own: the delete and the inserts are one
\* transaction, so a failing statement leaves the table as it was and the
\* call throws DatabaseError.
UpdateNoteLinks(note, fail) ==
    /\ linkRows' = IF fail THEN linkRows
                   ELSE updateNoteLinks(linkRows, note, note.links)
    /\ lastOp' = Called("updateNoteLinks", note, IF fail THEN "error" ELSE "ok")
    /\ UNCHANGED <<notes, fts, toolVars, backlinkVars, utilVars>>

\* removeNoteLinks as a call of its own.
RemoveNoteLinks(uid, fail) ==
    /\ linkRows' = IF fail THEN linkRows ELSE removeNoteLinks(linkRows, uid)
    /\ lastOp' = Called("removeNoteLinks", uid, IF fail THEN "error" ELSE "ok")
    /\ UNCHANGED <<notes, fts, toolVars, backlinkVars, utilVars>>

NextLinks ==
    \/ \E n \in LinkInputs, f \in BOOLEAN : UpdateNoteLinks(n, f)
    \/ \E u \in Uids, f \in BOOLEAN : RemoveNoteLinks(u, f)

SpecLinks == InitIndex /\ [][NextLinks]_vars

\* The strength the code stores: occurrences capped at 10, and 1 for a
\* target the body does not mention.
StoredStrength(n, t) ==
    IF Count(n.content, t) = 0 THEN 1 ELSE Min(Count(n.content, t), 10)

\* The link rows of note n after updateNoteLinks(n, n.links), given the
\* strength each target should carry.
RowsAsClaimed(n, rows, strengthOf(_, _)) ==
    /\ \A r \in rows : r.source_uid = n.id /\ r.target_uid \in Range(n.links) \ {n.id}
    /\ \A t \in Range(n.links) \ {n.id} :
          /\ Cardinality({r \in rows : r.target_uid = t}) = 1
          /\ \A r \in rows : r.target_uid = t =>
                /\ r.strength = strengthOf(n, t)
                /\ r.strength >= 1 /\ r.strength <= 10

OccurrencesCapped(n, t) == Min(Count(n.content, t), 10)

\* C17 as stated: after updateNoteLinks(note, L) the rows of the note are one
\* per distinct target other than the note, each with a strength between 1
\* and 10 equal to the occurrences of the target in the body capped at 10.
C17_AsStated ==
    (lastOp.op = "updateNoteLinks" /\ lastOp.result = "ok")
    => RowsAsClaimed(lastOp.note,
                     {r \in linkRows : r.source_uid = lastOp.note.id},
                     OccurrencesCapped)

\* C17: after updateNoteLinks(note, L) the rows of the note are exactly one
\* per distinct target of L other than the note, none from an earlier call,
\* each with the occurrences capped at 10 as strength, and strength 1 for a
\* target the body does not mention; rows of other sources are untouched,
\* and a call that throws leaves the table as it was.
C17_UpdateLinksRows ==
    [][\A n \in LinkInputs :
          (lastOp'.op = "updateNoteLinks" /\ lastOp'.note = n)
          => IF lastOp'.result = "ok"
             THEN /\ RowsAsClaimed(n, {r \in linkRows' : r.source_uid = n.id},
                                   StoredStrength)
                  /\ {r \in linkRows' : r.source_uid # n.id}
                       = {r \in linkRows : r.source_uid # n.id}
             ELSE linkRows' = linkRows]_vars

\* An update of b with links <<a, b>> has dropped the self-link and stored
\* strength 1 for a target its body does not mention, next to a row of a
\* whose strength was capped.
C17_Witness ==
    /\ lastOp.op = "updateNoteLinks" /\ lastOp.result = "ok"
    /\ lastOp.note.id = "b" /\ lastOp.note.links = <<"a", "b">>
    /\ [source_uid |-> "a", target_uid |-> "b", strength |-> MaxStrength] \in linkRows
    /\ {r \in linkRows : r.source_uid = "b"}
         = {[source_uid |-> "b", target_uid |-> "a", strength |-> 1]}

\* ---- SearchEngine.indexNotes: batch indexing ----

\* Notes per transaction (100 in the code) and the longest batch tried.
IndexBatchSize == 2
MaxBatchLen == 3

\* The notes of a batch: a links to itself and to b, b links to nothing.
BatchNotes ==
    {[id |-> "a", filePath |-> "p1", content |-> <<"b", "b">>,
      links |-> <<"a", "b">>],
     [id |-> "b", filePath |-> "p2", content |-> <<"b", "b">>,
      links |-> <<>>]}

\* A note of the batch with the statement of its turn that throws, if any.
BatchItems == [note : BatchNotes, fail : FailPoints]

SeqsUpTo(S, n) == UNION {[1..k -> S] : k \in 1..n}

NoteOf(items) == [i \in DOMAIN items |-> items[i].note]

\* A failure that leaves no trace in the report.
IgnoreFailure(st, note, error) == st

\* The catch block of the loop: failed++ and failures.push({noteUid, error}).
recordFailure(st, note, error) ==
    [st EXCEPT !.failed = @ + 1,
               !.failures = Append(@, [noteUid |-> note.id, error |-> error])]

\* One turn of the loop over a chunk.  The try/catch is inside the
\* transaction callback, so what a note wrote before its statement threw
\* stays in the transaction; updateNoteLinks is not awaited, so its
\* failure is not caught and the note counts as successful.
indexOneNote(st, item) ==
    LET note == item.note IN
    IF item.fail = "meta" THEN recordFailure(st, note, "meta")
    ELSE IF item.fail = "fts"
    THEN recordFailure([st EXCEPT !.notes = upsertNoteMetadata(@, note)],
                       note, "fts")
    ELSE [st EXCEPT !.notes = upsertNoteMetadata(@, note),
                    !.fts = ftsUpdateNote(@, note),
                    !.links = IF item.fail = "links" THEN @
                              ELSE updateNoteLinks(@, note, note.links),
                    !.successful = @ + 1]

RECURSIVE indexChunk(_, _)
\* The transaction of one chunk: every note in order, then commit.
indexChunk(st, items) ==
    IF items = <<>> THEN st
    ELSE indexChunk(indexOneNote(st, Head(items)), Tail(items))

RECURSIVE indexChunks(_, _)
\* The loop over the chunks of the batch.
indexChunks(st, items) ==
    IF items = <<>> THEN st
    ELSE LET k == Min(IndexBatchSize, Len(items)) IN
         indexChunks(indexChunk(st, SubSeq(items, 1, k)),
                     SubSeq(items, k + 1, Len(items)))

indexNotes(items) ==
    \E st \in {indexChunks([notes |-> notes, fts |-> fts, links |-> linkRows,
                            successful |-> 0, failed |-> 0,
                            failures |-> <<>>], items)} :
       /\ notes' = st.notes
       /\ fts' = st.fts
       /\ linkRows' = st.links
       /\ lastOp' = [op |-> "indexNotes", note |-> NoteOf(items),
                     result |-> "ok", again |-> FALSE,
                     report |-> [successful |-> st.successful,
                                 failed |-> st.failed,
                                 failures |-> st.failures]]
       /\ UNCHANGED <<toolVars, backlinkVars, utilVars>>

IndexNotes == \E items \in SeqsUpTo(BatchItems, MaxBatchLen) : indexNotes(items)

NextBatch == IndexNotes \/ RemoveNote

SpecBatch == InitIndex /\ [][NextBatch]_vars

FailedUids(report) == {report.failures[i].noteUid : i \in DOMAIN report.failures}

\* C18: indexNotes returns a report in which every input note is counted
\* once (successful + failed = number of notes), every failed note is in
\* failures[] with its uid and an error, and a note whose uid is not
\* reported failed has been processed whatever preceded it in the batch.
C18_BatchReportCountsEveryNote ==
    lastOp.op = "indexNotes"
    => LET batch == lastOp.note
           report == lastOp.report
       IN /\ report.successful + report.failed = Len(batch)
          /\ Len(report.failures) = report.failed
          /\ \A i \in DOMAIN report.failures :
                /\ \E j \in DOMAIN batch : batch[j].id = report.failures[i].noteUid
                /\ report.failures[i].error # ""
          /\ \A j \in DOMAIN batch :
                batch[j].id \notin FailedUids(report)
                => \E r \in notes : r.uid = batch[j].id

\* A batch of three notes in which the second failed and the third, of
\* another chunk, was still indexed.
C18_Witness ==
    /\ lastOp.op = "indexNotes"
    /\ Len(lastOp.note) = 3
    /\ lastOp.report.failed = 1 /\ lastOp.report.successful = 2
    /\ lastOp.note[1].id = "b" /\ lastOp.note[2].id = "a" /\ lastOp.note[3].id = "b"
    /\ FailedUids(lastOp.report) = {"a"}
    /\ [uid |-> "b", file_path |-> "p2", content_hash |-> <<"b", "b">>] \in notes

\* The rows a batch writes for the note with this uid.
OwnRows(uid) ==
    [notes |-> {r \in notes : r.uid = uid},
     fts |-> {r \in DOMAIN fts : r.uid = uid},
     links |-> {r \in linkRows : r.source_uid = uid}]

\* The notes of the batch with this uid, by position.
Turns(batch, uid) == {j \in DOMAIN batch : batch[j].id = uid}

\* C19: after indexNotes returns, a uid whose notes were all reported failed
\* has the rows it had before the call, and a uid none of whose notes was
\* reported failed has the notes, FTS and link rows of its last note.
C19_BatchRowsMatchReport ==
    [][lastOp'.op = "indexNotes"
       => \A u \in NoteUids, n \in BatchNotes :
             LET batch == lastOp'.note
                 report == lastOp'.report
                 failedTurns == {i \in DOMAIN report.failures :
                                    report.failures[i].noteUid = u}
             IN (Turns(batch, u) # {} /\ n = batch[CHOOSE j \in Turns(batch, u) :
                                          \A k \in Turns(batch, u) : k <= j])
                => /\ Cardinality(failedTurns) = Cardinality(Turns(batch, u))
                      => OwnRows(u)' = OwnRows(u)
                   /\ failedTurns = {}
                      => (NotesReflect(n) /\ FtsReflects(n) /\ LinksReflect(n))'
      ]_vars

\* ------------------------------------------------------------------------
\* Tool runtime: executeTool under withExecutionPolicy
\* ------------------------------------------------------------------------

\* The largest max_retries a call is made with.
MaxRetriesBound == 2

\* File or database effects one handler invocation performs.
MaxEffects == 1

\* The largest timeout_ms a call is made with; time passes in steps of 1 ms.
MaxTimeout == 2

\* How the tool name of a call resolves: rejected by ToolNameSchema, a valid
\* name with no entry in toolMap, or a registered tool.
NameKinds == {"unknown", "unregistered", "registered"}

\* What a handler invocation can throw: an I/O error, or a plain Error,
\* which has the kind ToolError.
HandlerErrors == {"WriteError", "ToolError"}

Failure(code, details) == [ok |-> FALSE, code |-> code, details |-> details]

Success == [ok |-> TRUE, code |-> "none", details |-> "none"]

\* definition.schema.parseAsync(rawInput): whether the input passes.
SkipValidation(inputValid) == TRUE

schemaParse(inputValid) == inputValid

\* The onRetry callback executeTool hands to withExecutionPolicy: one
\* tool.retry entry per call.
NoRetryEntry(log, attempt, error) == log

onRetry(log, attempt, error) ==
    Append(log, [entry |-> "tool.retry", attempt |-> attempt, error |-> error])

\* A fresh invocation of definition.handler(parsedInput, context).  The
\* closure receives no cancellation handle.
NewHandler ==
    [state |-> "running", effects |-> 0, timedOut |-> FALSE,
     lateEffect |-> FALSE, verdict |-> "pending", elapsed |-> 0]

\* withExecutionPolicy begins an attempt: with timeout_ms = 0 the attempt
\* is over before the handler is started.
AlwaysStarts(timeoutMs) == TRUE

startsHandler(timeoutMs) == timeoutMs > 0

NewAttempt(timeoutMs) ==
    IF startsHandler(timeoutMs)
    THEN NewHandler
    ELSE [NewHandler EXCEPT !.state = "notStarted"]

\* The end of executeTool: the success or failure log entry, then the
\* result is returned or the error rethrown.
Finish(result) ==
    /\ tool' = [tool EXCEPT !.pc = "done", !.result = result]
    /\ toolLog' = Append(toolLog,
                    [entry |-> IF result.ok THEN "tool.success" ELSE "tool.failure",
                     attempt |-> Len(handlers), error |-> result.code])

\* executeTool from its entry to the first handler invocation.
ExecuteTool(nameKind, inputValid, maxRetries, timeoutMs) ==
    /\ tool.pc = "idle"
    /\ LET base == [pc |-> "running", nameKind |-> nameKind,
                    inputValid |-> inputValid, maxRetries |-> maxRetries,
                    timeoutMs |-> timeoutMs, result |-> Success]
       IN
       IF nameKind = "unknown"
       THEN /\ tool' = [base EXCEPT !.pc = "done",
                          !.result = Failure("McpInvalidRequest", "none")]
            /\ UNCHANGED <<handlers, toolLog>>
       ELSE IF nameKind = "unregistered"
       THEN /\ tool' = [base EXCEPT !.pc = "done",
                          !.result = Failure("McpToolError", "none")]
            /\ UNCHANGED <<handlers, toolLog>>
       ELSE IF ~schemaParse(inputValid)
       THEN /\ tool' = [base EXCEPT !.pc = "done",
                          !.result = Failure("SchemaValidationError",
                                             "validationErrors")]
            /\ UNCHANGED <<handlers, toolLog>>
       ELSE /\ tool' = base
            /\ toolLog' = Append(toolLog,
                    [entry |-> "tool.start", attempt |-> 0, error |-> "none"])
            /\ handlers' = <<NewAttempt(timeoutMs)>>
    /\ UNCHANGED <<indexVars, backlinkVars, utilVars>>

\* withExecutionPolicy after the current attempt ended with `error`:
\* another attempt while attempts remain, else the error is thrown.
AfterFailure(hs, error) ==
    IF Len(hs) <= tool.maxRetries
    THEN /\ toolLog' = onRetry(toolLog, Len(hs), error)
         /\ handlers' = Append(hs, NewAttempt(tool.timeoutMs))
         /\ UNCHANGED tool
    ELSE /\ handlers' = hs
         /\ Finish(Failure(error, "none"))

\* A handler invocation performs a file or database effect.
HandlerEffect(i) ==
    /\ i \in DOMAIN handlers
    /\ handlers[i].state = "running"
    /\ handlers[i].effects < MaxEffects
    /\ handlers' = [handlers EXCEPT ![i].effects = @ + 1,
                                    ![i].lateEffect = handlers[i].timedOut]
    /\ UNCHANGED <<tool, toolLog>>
    /\ UNCHANGED <<indexVars, backlinkVars, utilVars>>

\* The current attempt's handler returns: executeTool logs and returns.
HandlerReturns ==
    /\ tool.pc = "running"
    /\ LET i == Len(handlers) IN
       /\ handlers[i].state = "running"
       /\ ~handlers[i].timedOut
       /\ handlers' = [handlers EXCEPT ![i].state = "finished",
                                       ![i].verdict = "ok"]
       /\ Finish(Success)
    /\ UNCHANGED <<indexVars, backlinkVars, utilVars>>

\* The current attempt's handler throws.
HandlerThrows(error) ==
    /\ tool.pc = "running"
    /\ LET i == Len(handlers) IN
       /\ handlers[i].state = "running"
       /\ ~handlers[i].timedOut
       /\ AfterFailure([handlers EXCEPT ![i].state = "finished",
                                        ![i].verdict = error], error)
    /\ UNCHANGED <<indexVars, backlinkVars, utilVars>>

\* One millisecond of the current attempt passes.
Tick ==
    /\ tool.pc = "running"
    /\ LET i == Len(handlers) IN
       /\ handlers[i].state = "running"
       /\ ~handlers[i].timedOut
       /\ handlers[i].elapsed < tool.timeoutMs
       /\ handlers' = [handlers EXCEPT ![i].elapsed = @ + 1]
    /\ UNCHANGED <<tool, toolLog>>
    /\ UNCHANGED <<indexVars, backlinkVars, utilVars>>

\* timeout_ms has passed and the current attempt's handler has not settled:
\* the attempt ends with a timeout error; a started handler's promise
\* stays pending.
AttemptTimeout ==
    /\ tool.pc = "running"
    /\ LET i == Len(handlers) IN
       /\ handlers[i].state \in {"running", "notStarted"}
       /\ ~handlers[i].timedOut
       /\ handlers[i].elapsed = tool.timeoutMs
       /\ AfterFailure([handlers EXCEPT ![i].timedOut = TRUE,
                                        ![i].verdict = "Timeout"], "Timeout")
    /\ UNCHANGED <<indexVars, backlinkVars, utilVars>>

\* A handler whose attempt has timed out settles; nobody awaits it.
LateHandlerSettles(i) ==
    /\ i \in DOMAIN handlers
    /\ handlers[i].state = "running"
    /\ handlers[i].timedOut
    /\ handlers' = [handlers EXCEPT ![i].state = "finished"]
    /\ UNCHANGED <<tool, toolLog>>
    /\ UNCHANGED <<indexVars, backlinkVars, utilVars>>

InitTool == IndexInit /\ ToolIdle /\ BacklinkIdle /\ UtilIdle

NextTool ==
    \/ \E k \in NameKinds, v \in BOOLEAN, m \in 0..MaxRetriesBound,
          t \in 0..MaxTimeout :
          ExecuteTool(k, v, m, t)
    \/ \E i \in 1..(MaxRetriesBound + 1) : HandlerEffect(i)
    \/ HandlerReturns
    \/ \E e \in HandlerErrors : HandlerThrows(e)
    \/ Tick
    \/ AttemptTimeout
    \/ \E i \in 1..(MaxRetriesBound + 1) : LateHandlerSettles(i)

SpecTool == InitTool /\ [][NextTool]_vars

RetryEntries == SelectSeq(toolLog, LAMBDA e : e.entry = "tool.retry")

Running(i) == handlers[i].state = "running"

\* C8: a timed-out attempt's handler is cancelled: it performs no effect
\* after the timeout, and a retry never runs while it is still running.
C8_TimeoutCancelsHandler ==
    \A i \in DOMAIN handlers :
        /\ ~handlers[i].lateEffect
        /\ \A j \in DOMAIN handlers : (i # j /\ Running(i)) => ~Running(j)

\* C9: the handler runs at most max_retries + 1 times and not again after a
\* success; every failed attempt that is followed by another one has
\* exactly one tool.retry entry, numbered by the attempt; when all attempts
\* fail the last error is thrown.  Failing twice then succeeding gives
\* success with 3 attempts and 2 entries under max_retries = 2, and the
\* second error under max_retries = 1.
C9_RetryPolicy ==
    tool.pc # "idle" =>
        /\ Len(handlers) <= tool.maxRetries + 1
        /\ \A i \in DOMAIN handlers :
              handlers[i].verdict = "ok" => i = Len(handlers)
        /\ Len(RetryEntries) = (IF handlers = <<>> THEN 0 ELSE Len(handlers) - 1)
        /\ \A i \in DOMAIN RetryEntries :
              /\ RetryEntries[i].attempt = i
              /\ RetryEntries[i].error = handlers[i].verdict
        /\ (tool.pc = "done" /\ handlers # <<>>) =>
              /\ tool.result.ok <=> handlers[Len(handlers)].verdict = "ok"
              /\ ~tool.result.ok =>
                    /\ Len(handlers) = tool.maxRetries + 1
                    /\ tool.result.code = handlers[Len(handlers)].verdict
        /\ (tool.pc = "done" /\ Len(handlers) >= 2
              /\ handlers[1].verdict \in HandlerErrors
              /\ handlers[2].verdict \in HandlerErrors) =>
              /\ tool.maxRetries = 1 =>
                    /\ ~tool.result.ok
                    /\ tool.result.code = handlers[2].verdict
              /\ (tool.maxRetries = 2 /\ handlers[3].verdict = "ok") =>
                    /\ tool.result.ok
                    /\ Len(handlers) = 3
                    /\ Len(RetryEntries) = 2

C9_Witness ==
    /\ tool.pc = "done"
    /\ tool.maxRetries = 2
    /\ Len(handlers) = 3
    /\ handlers[1].verdict \in HandlerErrors
    /\ handlers[2].verdict \in HandlerErrors
    /\ tool.result.ok
    /\ Len(RetryEntries) = 2

\* C10: an input that fails the tool's schema ends the call with
\* SchemaValidationError carrying the validator's diagnostics, with no
\* handler invocation and no retry, whatever max_retries is.
C10_SchemaFailureNotRetried ==
    (tool.pc # "idle" /\ tool.nameKind = "registered" /\ ~tool.inputValid) =>
        /\ tool.pc = "done"
        /\ tool.result = Failure("SchemaValidationError", "validationErrors")
        /\ handlers = <<>>
        /\ RetryEntries = <<>>

C10_Witness ==
    /\ tool.pc = "done"
    /\ tool.nameKind = "registered"
    /\ ~tool.inputValid
    /\ tool.maxRetries = MaxRetriesBound
    /\ tool.result.code = "SchemaValidationError"

\* The failure kinds the retry policy is meant for.
TransientKinds == {"WriteError", "DatabaseError", "Timeout"}

\* C11: an attempt that fails with a kind other than transient WriteError,
\* DatabaseError or Timeout is the last attempt of the call, and its error
\* is the call's result.
C11_OnlyTransientRetried ==
    \A i \in DOMAIN handlers :
        handlers[i].verdict \in HandlerErrors \ TransientKinds =>
            /\ i = Len(handlers)
            /\ tool.pc = "done"
            /\ tool.result = Failure(handlers[i].verdict, "none")

RECURSIVE Dedup(_)
Dedup(s) ==
    IF s = <<>> THEN <<>>
    ELSE LET r == Dedup(SubSeq(s, 1, Len(s) - 1))
         IN IF s[Len(s)] \in Range(r) THEN r ELSE Append(r, s[Len(s)])

\* parseMarkdownLinks: the link targets of a body, each once, in order.
parseMarkdownLinks(body) == Dedup(body)

\* analyzeLinks: a target that resolves to a note of the vault is an
\* outbound link, any other target is a broken link.
analyzeLinks(uid) ==
    [outboundLinks |-> SelectSeq(parseMarkdownLinks(Body[uid]),
                                 LAMBDA t : t \in Vault),
     brokenLinks |-> SelectSeq(parseMarkdownLinks(Body[uid]),
                               LAMBDA t : t \notin Vault)]

\* pendingUpdates.add(uid) on a Set that keeps insertion order.
SetAdd(q, uid) == IF uid \in Range(q) THEN q ELSE Append(q, uid)

Alive == serverPc # "exited"

\* The size of the next chunk of a runner: processBatch slices the batch
\* by options.concurrency, the callers slice the UIDs by options.batchSize.
ChunkSize(run) ==
    Min(Min(Concurrency, BatchSize - (run.started % BatchSize)), Len(run.rest))

\* chunk.map(uid => this.syncBacklinksForNote(uid)): the calls of the next
\* chunk of runner r, each up to its first await.
ChunkSyncs(r, run) ==
    {[uid |-> run.rest[i], runner |-> r, phase |-> "called", snap |-> <<>>]
        : i \in 1..ChunkSize(run)}

Advance(run) ==
    [run EXCEPT !.rest = SubSeq(run.rest, ChunkSize(run) + 1, Len(run.rest)),
                !.started = run.started + ChunkSize(run)]

FreeSlots == {r \in 1..MaxRunners : runners[r].kind = "free"}

\* What the caller of a finished runner does next: cleanup() goes on after
\* its await of processPendingUpdates, the others have nothing left to do.
RunnerReturns(kind) ==
    IF kind = "drain"
    THEN /\ pendingUpdates' = <<>>
         /\ isInitialized' = FALSE
    ELSE UNCHANGED <<pendingUpdates, isInitialized>>

\* A runner is entered with the UIDs it will sync: its first chunk of
\* syncBacklinksForNote calls is made before it first yields.
StartRunner(kind, uids) ==
    /\ FreeSlots # {}
    /\ LET r == CHOOSE x \in FreeSlots : \A y \in FreeSlots : x <= y
           run == [kind |-> kind, rest |-> uids, started |-> 0]
       IN /\ runners' = [runners EXCEPT ![r] = Advance(run)]
          /\ syncs' = syncs \cup ChunkSyncs(r, run)
          /\ owed' = owed \ {x.uid : x \in ChunkSyncs(r, run)}
          /\ sigPending' = sigPending \ {x.uid : x \in ChunkSyncs(r, run)}

\* The promise of sync s settles.  Promise.all of its chunk resolves once
\* every sync of the chunk has resolved and rejects as soon as one rejects;
\* the syncs still running then go on with nobody waiting for them.
SyncSettled(s, ok) ==
    LET r == s.runner
        others == {x \in syncs \ {s} : x.runner = r}
    IN
    IF r = 0
    THEN /\ syncs' = syncs \ {s}
         /\ UNCHANGED <<runners, pendingUpdates, isInitialized, owed, sigPending>>
    ELSE IF ~ok
    THEN /\ syncs' = (syncs \ ({s} \cup others))
                        \cup {[x EXCEPT !.runner = 0] : x \in others}
         /\ runners' = [runners EXCEPT ![r] = FreeRunner]
         /\ RunnerReturns(runners[r].kind)
         /\ UNCHANGED <<owed, sigPending>>
    ELSE IF others # {}
    THEN /\ syncs' = syncs \ {s}
         /\ UNCHANGED <<runners, pendingUpdates, isInitialized, owed, sigPending>>
    ELSE IF runners[r].rest = <<>>
    THEN /\ syncs' = syncs \ {s}
         /\ runners' = [runners EXCEPT ![r] = FreeRunner]
         /\ RunnerReturns(runners[r].kind)
         /\ UNCHANGED <<owed, sigPending>>
    ELSE /\ syncs' = (syncs \ {s}) \cup ChunkSyncs(r, runners[r])
         /\ runners' = [runners EXCEPT ![r] = Advance(runners[r])]
         /\ owed' = owed \ {x.uid : x \in ChunkSyncs(r, runners[r])}
         /\ sigPending' = sigPending \ {x.uid : x \in ChunkSyncs(r, runners[r])}
         /\ UNCHANGED <<pendingUpdates, isInitialized>>

\* handleFileChange for an add or change event that carries the note uid.
handleFileChange(uid) ==
    /\ Alive
    /\ budget.events > 0
    /\ budget' = [budget EXCEPT !.events = @ - 1]
    /\ pendingUpdates' = SetAdd(pendingUpdates, uid)
    /\ timer' = TRUE
    /\ owed' = owed \cup {uid}
    /\ UNCHANGED <<hdr, isInitialized, runners, syncs, cdn, serverPc,
                   sigPending, unlinkHandled>>
    /\ UNCHANGED <<indexVars, toolVars, utilVars>>

\* handleFileChange for the unlink event of the deleted note: the event
\* carries no note and is dropped.
handleUnlink ==
    /\ Alive
    /\ ~unlinkHandled
    /\ unlinkHandled' = TRUE
    /\ UNCHANGED <<hdr, pendingUpdates, timer, isInitialized, runners, syncs,
                   cdn, serverPc, budget, owed, sigPending>>
    /\ UNCHANGED <<indexVars, toolVars, utilVars>>

\* The debounce timer fires: processPendingUpdates.
processPendingUpdates ==
    /\ Alive
    /\ timer
    /\ timer' = FALSE
    /\ IF pendingUpdates = <<>>
       THEN UNCHANGED <<pendingUpdates, runners, syncs, owed, sigPending>>
       ELSE /\ StartRunner("flush", pendingUpdates)
            /\ pendingUpdates' = <<>>
    /\ UNCHANGED <<hdr, isInitialized, cdn, serverPc, budget, unlinkHandled>>
    /\ UNCHANGED <<indexVars, toolVars, utilVars>>

\* cleanup(): drains the pending set if there is one, then clears the set
\* and marks the manager uninitialised.  The debounced function has no
\* cancel, so an armed timer stays armed.
cleanup ==
    /\ Alive
    /\ isInitialized
    /\ budget.cleanups > 0
    /\ budget' = [budget EXCEPT !.cleanups = @ - 1]
    /\ IF pendingUpdates = <<>>
       THEN /\ isInitialized' = FALSE
            /\ UNCHANGED <<pendingUpdates, runners, syncs, owed, sigPending>>
       ELSE /\ StartRunner("drain", pendingUpdates)
            /\ pendingUpdates' = <<>>
            /\ UNCHANGED isInitialized
    /\ UNCHANGED <<hdr, timer, cdn, serverPc, unlinkHandled>>
    /\ UNCHANGED <<indexVars, toolVars, utilVars>>

\* rebuildAllBacklinks(): the UIDs of the note files that load, synced
\* batch by batch; a file whose loadNote throws is logged and left out.
rebuildAllBacklinks ==
    /\ Alive
    /\ budget.rebuilds > 0
    /\ \E unreadable \in {{}} \cup {{u} : u \in Vault} :
          /\ unreadable # {} => budget.failures > 0
          /\ budget' = [budget EXCEPT
                           !.rebuilds = @ - 1,
                           !.failures = @ - Cardinality(unreadable)]
          /\ StartRunner("rebuild",
                         SelectSeq(VaultOrder, LAMBDA u : u \notin unreadable))
    /\ UNCHANGED <<hdr, pendingUpdates, timer, isInitialized, cdn, serverPc,
                   unlinkHandled>>
    /\ UNCHANGED <<indexVars, toolVars, utilVars>>

\* syncBacklinksForNote, findNoteByUid returns: the note as it is on disk
\* now, or nothing, in which case the sync returns.
SyncLoad(s) ==
    /\ Alive
    /\ s \in syncs
    /\ s.phase = "called"
    /\ IF s.uid \in Vault
       THEN /\ syncs' = (syncs \ {s})
                           \cup {[s EXCEPT !.phase = "loaded", !.snap = hdr[s.uid]]}
            /\ UNCHANGED <<runners, pendingUpdates, isInitialized, owed, sigPending>>
       ELSE SyncSettled(s, TRUE)
    /\ UNCHANGED <<hdr, timer, cdn, serverPc, budget, unlinkHandled>>
    /\ UNCHANGED <<indexVars, toolVars, utilVars>>

\* syncBacklinksForNote, analyzeLinks returns: the loaded note is saved
\* with the analysed links when they differ from the loaded ones.
SyncSave(s) ==
    /\ Alive
    /\ s \in syncs
    /\ s.phase = "loaded"
    /\ hdr' = IF s.snap # analyzeLinks(s.uid).outboundLinks
              THEN [hdr EXCEPT ![s.uid] = analyzeLinks(s.uid).outboundLinks]
              ELSE hdr
    /\ SyncSettled(s, TRUE)
    /\ UNCHANGED <<timer, cdn, serverPc, budget, unlinkHandled>>
    /\ UNCHANGED <<indexVars, toolVars, utilVars>>

\* syncBacklinksForNote throws: a file could not be read or written.
SyncFail(s) ==
    /\ Alive
    /\ s \in syncs
    /\ budget.failures > 0
    /\ budget' = [budget EXCEPT !.failures = @ - 1]
    /\ SyncSettled(s, FALSE)
    /\ UNCHANGED <<hdr, timer, cdn, serverPc, unlinkHandled>>
    /\ UNCHANGED <<indexVars, toolVars, utilVars>>

\* A 'remove' event emitted whatever the affected notes are.
EmitAlways(affectedNotes) ==
    <<[type |-> "remove", targetUid |-> DeletedUid,
       affectedNotes |-> affectedNotes]>>

\* The end of cleanupBacklinksForDeletedNote: the events it emits, one
\* 'remove' event if affectedNotes.length > 0.
emitBacklinkSync(affectedNotes) ==
    IF Len(affectedNotes) > 0
    THEN <<[type |-> "remove", targetUid |-> DeletedUid,
            affectedNotes |-> affectedNotes]>>
    ELSE <<>>

\* cleanupBacklinksForDeletedNote goes on to the next file, or returns.
CdnNext(c) ==
    IF c.idx < Len(VaultOrder)
    THEN [c EXCEPT !.pc = "load", !.idx = @ + 1, !.snap = <<>>]
    ELSE [c EXCEPT !.pc = "idle", !.idx = 0, !.snap = <<>>,
                   !.emitted = emitBacklinkSync(c.affectedNotes)]

\* cleanupBacklinksForDeletedNote(DeletedUid) is called.
cleanupBacklinksForDeletedNote ==
    /\ Alive
    /\ cdn.pc = "idle"
    /\ budget.deletions > 0
    /\ budget' = [budget EXCEPT !.deletions = @ - 1]
    /\ cdn' = [pc |-> "load", idx |-> 1, snap |-> <<>>,
               affectedNotes |-> <<>>, emitted |-> <<>>]
    /\ UNCHANGED <<hdr, pendingUpdates, timer, isInitialized, runners, syncs,
                   serverPc, owed, sigPending, unlinkHandled>>
    /\ UNCHANGED <<indexVars, toolVars, utilVars>>

\* cleanupBacklinksForDeletedNote, loadNote returns for the current file:
\* the links without the deleted UID are kept for saving if one was dropped.
CdnLoad ==
    /\ Alive
    /\ cdn.pc = "load"
    /\ LET originalLinks == hdr[VaultOrder[cdn.idx]]
           updatedLinks == SelectSeq(originalLinks, LAMBDA l : l # DeletedUid)
       IN cdn' = IF Len(originalLinks) # Len(updatedLinks)
                 THEN [cdn EXCEPT !.pc = "save", !.snap = updatedLinks]
                 ELSE CdnNext(cdn)
    /\ UNCHANGED <<hdr, pendingUpdates, timer, isInitialized, runners, syncs,
                   serverPc, budget, owed, sigPending, unlinkHandled>>
    /\ UNCHANGED <<indexVars, toolVars, utilVars>>

\* cleanupBacklinksForDeletedNote, saveNote writes the current file.
CdnSave ==
    /\ Alive
    /\ cdn.pc = "save"
    /\ hdr' = [hdr EXCEPT ![VaultOrder[cdn.idx]] = cdn.snap]
    /\ cdn' = CdnNext([cdn EXCEPT
                          !.affectedNotes = Append(@, VaultOrder[cdn.idx])])
    /\ UNCHANGED <<pendingUpdates, timer, isInitialized, runners, syncs,
                   serverPc, budget, owed, sigPending, unlinkHandled>>
    /\ UNCHANGED <<indexVars, toolVars, utilVars>>

\* cleanupBacklinksForDeletedNote, loadNote or saveNote throws for the
\* current file: the error is logged and the loop goes on to the next file.
CdnFail ==
    /\ Alive
    /\ cdn.pc \in {"load", "save"}
    /\ budget.failures > 0
    /\ budget' = [budget EXCEPT !.failures = @ - 1]
    /\ cdn' = CdnNext(cdn)
    /\ UNCHANGED <<hdr, pendingUpdates, timer, isInitialized, runners, syncs,
                   serverPc, owed, sigPending, unlinkHandled>>
    /\ UNCHANGED <<indexVars, toolVars, utilVars>>

\* SIGINT or SIGTERM arrives: the handler starts server.close().
ServerSignal ==
    /\ serverPc = "running"
    /\ serverPc' = "closing"
    /\ sigPending' = Range(pendingUpdates)
    /\ UNCHANGED <<hdr, pendingUpdates, timer, isInitialized, runners, syncs,
                   cdn, budget, owed, unlinkHandled>>
    /\ UNCHANGED <<indexVars, toolVars, utilVars>>

\* server.close() has returned: process.exit(0).
ServerExit ==
    /\ serverPc = "closing"
    /\ serverPc' = "exited"
    /\ UNCHANGED <<hdr, pendingUpdates, timer, isInitialized, runners, syncs,
                   cdn, budget, owed, sigPending, unlinkHandled>>
    /\ UNCHANGED <<indexVars, toolVars, utilVars>>

\* The index as it is when the deleted note had been indexed with one
\* inbound link.
IndexedBeforeDeletion ==
    /\ notes = {[uid |-> DeletedUid, file_path |-> "p1", content_hash |-> <<>>]}
    /\ fts = SetToBag({[uid |-> DeletedUid, content |-> <<>>]})
    /\ linkRows = {[source_uid |-> "a", target_uid |-> DeletedUid, strength |-> 1]}
    /\ lastOp = NoCall

InitBacklink == IndexedBeforeDeletion /\ ToolIdle /\ BacklinkIdle /\ UtilIdle

\* The watcher's events, the debounced flush and the note syncs.
NextSync ==
    \/ \E u \in Vault : handleFileChange(u)
    \/ processPendingUpdates
    \/ \E s \in syncs : SyncLoad(s)
    \/ \E s \in syncs : SyncSave(s)
    \/ \E s \in syncs : SyncFail(s)

\* The synchroniser with its API calls cleanup and rebuildAllBacklinks.
NextBacklink ==
    \/ NextSync
    \/ cleanup
    \/ rebuildAllBacklinks

SpecBacklink == InitBacklink /\ [][NextBacklink]_vars

\* The synchroniser while the deletion of DeletedUid is being handled.
NextDeletion ==
    \/ NextSync
    \/ handleUnlink
    \/ cleanupBacklinksForDeletedNote
    \/ CdnLoad
    \/ CdnSave
    \/ CdnFail

SpecDeletion == InitBacklink /\ [][NextDeletion]_vars

\* The synchroniser while the server process is shut down.
NextShutdown ==
    \/ NextSync
    \/ cleanup
    \/ ServerSignal
    \/ ServerExit

SpecShutdown == InitBacklink /\ [][NextShutdown]_vars

\* Nothing is queued, scheduled or running in the synchroniser.
Quiescent ==
    /\ pendingUpdates = <<>>
    /\ ~timer
    /\ syncs = {}
    /\ \A r \in 1..MaxRunners : runners[r].kind = "free"
    /\ cdn.pc = "idle"

InFlight(uid) ==
    Cardinality({s \in syncs : s.uid = uid})
        + (IF cdn.pc = "save" /\ VaultOrder[cdn.idx] = uid THEN 1 ELSE 0)

\* C2: when a sync of a note of the vault completes successfully, the
\* note's header links, as a set, are the outbound links that analyzeLinks
\* resolves from its body.
C2_SyncMakesHeaderMatchBody ==
    [][\A s \in syncs :
          (/\ s.phase = "loaded"
           /\ s.uid \in Vault
           /\ s \notin syncs'
           /\ budget'.failures = budget.failures)
          => Range(hdr'[s.uid]) = Range(analyzeLinks(s.uid).outboundLinks)]_vars

\* C3: every UID named by an add or change event is synced by a flush that
\* starts after the event: once the synchroniser (never cleaned up) has
\* nothing queued, scheduled or running, no UID is still owed a sync.
C3_EveryEventIsSynced ==
    (Quiescent /\ isInitialized /\ budget.cleanups = 1) => owed = {}

\* C4: once the deletion of a note has been processed, even when it was
\* seen only as an unlink event, and the synchroniser has come to rest, no
\* header links and no notes, FTS or links row names the deleted UID.
C4_DeletionRemovesReferences ==
    (Quiescent /\ unlinkHandled) =>
        /\ \A u \in Vault : DeletedUid \notin Range(hdr[u])
        /\ \A r \in notes : r.uid # DeletedUid
        /\ \A r \in DOMAIN fts : r.uid # DeletedUid
        /\ \A r \in linkRows :
              r.source_uid # DeletedUid /\ r.target_uid # DeletedUid

\* C5: at no time are two load-modify-save cycles on the same note in
\* progress.
C5_WritesSerialized == \A u \in Vault : InFlight(u) <= 1

\* C6: at every moment at most options.concurrency note syncs are in
\* flight, and they come from batches of at most options.batchSize UIDs.
C6_BoundedConcurrency ==
    /\ Cardinality(syncs) <= Concurrency
    /\ \A r \in 1..MaxRunners :
          Cardinality({s \in syncs : s.runner = r}) <= BatchSize

\* C7: at exit no UID that was pending when the termination signal arrived
\* is left unsynced, and the synchroniser has been drained and cleaned up.
C7_GracefulShutdown ==
    serverPc = "exited" =>
        /\ sigPending = {}
        /\ pendingUpdates = <<>>
        /\ syncs = {}
        /\ ~isInitialized

\* cleanupBacklinksForDeletedNote(DeletedUid) has been called and has returned.
CdnReturned == cdn.pc = "idle" /\ budget.deletions = 0

WithoutDeleted(links) == SelectSeq(links, LAMBDA l : l # DeletedUid)

\* C20: a step of cleanupBacklinksForDeletedNote writes a note only to drop
\* the deleted UID from header links that contain it, leaving every other
\* entry as it is, and once the call has returned no header links of the
\* vault contain the deleted UID.
C20_CleanupRemovesOnlyDeletedUid ==
    [][cdn' # cdn
       => /\ \A u \in Vault :
                \/ hdr'[u] = hdr[u]
                \/ /\ DeletedUid \in Range(hdr[u])
                   /\ hdr'[u] = WithoutDeleted(hdr[u])
          /\ CdnReturned' => \A u \in Vault : DeletedUid \notin Range(hdr'[u])
      ]_vars

\* C21 as stated: every cleanupBacklinksForDeletedNote call that has
\* returned has emitted exactly one 'remove' event naming the deleted UID
\* and the notes it changed.
C21_AsStated ==
    CdnReturned
    => cdn.emitted = <<[type |-> "remove", targetUid |-> DeletedUid,
                        affectedNotes |-> cdn.affectedNotes]>>

\* C21: a cleanupBacklinksForDeletedNote call emits one 'remove' event,
\* with target the deleted UID and affected the notes it wrote, when it
\* wrote at least one note, and no event when it wrote none; the affected
\* notes are exactly the notes whose header links a step of the call changed.
C21_OneRemoveEventIfAffected ==
    [][cdn' # cdn
       => /\ \A u \in Vault :
                hdr'[u] # hdr[u]
                <=> cdn'.affectedNotes = Append(cdn.affectedNotes, u)
          /\ (\A u \in Vault : hdr'[u] = hdr[u]) /\ cdn.pc # "idle"
                => cdn'.affectedNotes = cdn.affectedNotes
          /\ CdnReturned'
                => IF cdn'.affectedNotes = <<>>
                   THEN cdn'.emitted = <<>>
                   ELSE cdn'.emitted =
                          <<[type |-> "remove", targetUid |-> DeletedUid,
                             affectedNotes |-> cdn'.affectedNotes]>>
          /\ ~CdnReturned' => cdn'.emitted = <<>>
      ]_vars

\* A cleanup that changed note a has returned and emitted its event.
C21_Witness ==
    /\ CdnReturned
    /\ cdn.emitted = <<[type |-> "remove", targetUid |-> DeletedUid,
                        affectedNotes |-> <<"a">>]>>
    /\ DeletedUid \notin Range(hdr["a"])

\* The synchroniser over a vault whose front matter is in either order.
InitSync ==
    /\ IndexedBeforeDeletion
    /\ ToolIdle
    /\ UtilIdle
    /\ \E h \in {InitialHeader, ReorderedHeader} : BacklinkIdleFrom(h)

SpecSync == InitSync /\ [][NextSync]_vars

\* C22: a sync that completes for a note whose loaded header links and
\* analysed outbound links are equal as sets, in whatever order, does not
\* write the note.
C22_SyncWritesOnlyWhenSetDiffers ==
    [][\A s \in syncs :
          (/\ s.phase = "loaded"
           /\ s \notin syncs'
           /\ Range(s.snap) = Range(analyzeLinks(s.uid).outboundLinks))
          => hdr' = hdr]_vars

\* C23: a rebuild ends only after it has started a sync for every note it
\* loaded and all of them have settled, and it does not end by raising
\* because one of its syncs failed.
C23_RebuildSkipsFailures ==
    [][\A r \in 1..MaxRunners :
          (runners[r].kind = "rebuild" /\ runners'[r].kind # "rebuild")
          => /\ runners[r].rest = <<>>
             /\ budget'.failures = budget.failures]_vars

\* ------------------------------------------------------------------------
\* LinkGraphManager queries: findConnectedNotes, findOrphanNotes
\* ------------------------------------------------------------------------

\* The notes of the graph, in the order that breaks ties of ORDER BY.
NodeOrder == <<"a", "b", "c", "d">>

Nodes == Range(NodeOrder)

Rank(u) == CHOOSE i \in DOMAIN NodeOrder : NodeOrder[i] = u

\* The limit getConnectedUids passes to findOutboundLinks and findBacklinks.
NeighbourLimit == 50

\* The default of options.limit, and the deepest traversal asked for.
DefaultLimit == 100
MaxDepth == 3

Limits == {1, 2, DefaultLimit}

Directions == {"outgoing", "incoming", "both"}

\* Score 1.0; scores are kept as millionths so that 0.7^d stays exact.
ScoreOne == 1000000

RECURSIVE Pow(_, _)
Pow(b, e) == IF e = 0 THEN 1 ELSE b * Pow(b, e - 1)

\* score * (0.7 ** currentDepth)
Decay(score, currentDepth) == (score * Pow(7, currentDepth)) \div Pow(10, currentDepth)

Take(s, n) == SubSeq(s, 1, Min(n, Len(s)))

RECURSIVE OrderByStrength(_)
\* ORDER BY strength DESC; rows of equal strength come in NodeOrder.
OrderByStrength(pairs) ==
    IF pairs = {} THEN <<>>
    ELSE LET best == CHOOSE p \in pairs : \A q \in pairs :
                        \/ p.strength > q.strength
                        \/ p.strength = q.strength /\ Rank(p.uid) <= Rank(q.uid)
         IN <<best.uid>> \o OrderByStrength(pairs \ {best})

\* findOutboundLinks: the targets of the source that are indexed notes.
findOutboundLinks(sourceUid, limit) ==
    Take(OrderByStrength({[uid |-> r.target_uid, strength |-> r.strength] :
            r \in {x \in linkRows : /\ x.source_uid = sourceUid
                                    /\ \E n \in notes : n.uid = x.target_uid}}),
         limit)

\* findBacklinks with its rows in order: the sources that are indexed notes.
findBacklinksOrdered(targetUid, limit) ==
    Take(OrderByStrength({[uid |-> r.source_uid, strength |-> r.strength] :
            r \in {x \in linkRows : /\ x.target_uid = targetUid
                                    /\ \E n \in notes : n.uid = x.source_uid}}),
         limit)

\* getConnectedUids: outbound targets, then inbound sources, each UID once.
getConnectedUids(uid, direction) ==
    Dedup((IF direction \in {"outgoing", "both"}
           THEN findOutboundLinks(uid, NeighbourLimit) ELSE <<>>)
          \o (IF direction \in {"incoming", "both"}
              THEN findBacklinksOrdered(uid, NeighbourLimit) ELSE <<>>))

\* getConnectedUids with its catch: when a lookup of uid throws, the error
\* is logged and the node has no connections.
getConnectedUidsCaught(uid, direction, failing) ==
    IF uid \in failing THEN <<>> ELSE getConnectedUids(uid, direction)

\* getNodeInfo finds a notes row.
getNodeInfo(uid) == \E n \in notes : n.uid = uid

\* resultNodes.set(uid, node) on a Map that keeps insertion order.
MapSet(entries, node) ==
    IF \E i \in DOMAIN entries : entries[i].id = node.id
    THEN [i \in DOMAIN entries |->
             IF entries[i].id = node.id THEN node ELSE entries[i]]
    ELSE Append(entries, node)

RECURSIVE expand(_, _, _, _)
\* The for loop over the UIDs connected to the dequeued entry h.
expand(st, h, uids, depth) ==
    IF uids = <<>> THEN st
    ELSE LET connectedUid == Head(uids)
             nodeScore == Decay(h.score, h.currentDepth)
             seen == [st EXCEPT !.visitedNodes = @ \cup {connectedUid}]
         IN IF connectedUid \in st.visitedNodes
            THEN expand(st, h, Tail(uids), depth)
            ELSE IF ~getNodeInfo(connectedUid)
            THEN expand(seen, h, Tail(uids), depth)
            ELSE expand(
                   [seen EXCEPT
                      !.resultNodes =
                          MapSet(@, [id |-> connectedUid, score |-> nodeScore,
                                     depth |-> h.currentDepth + 1]),
                      !.queue =
                          IF h.currentDepth + 1 < depth
                          THEN Append(@, [uid |-> connectedUid,
                                          currentDepth |-> h.currentDepth + 1,
                                          score |-> nodeScore])
                          ELSE @],
                   h, Tail(uids), depth)

RECURSIVE traverse(_, _, _, _, _)
\* The while loop: queue.length > 0 && resultNodes.size < limit.  The
\* lookups of the nodes in `failing` throw.
traverse(st, depth, limit, direction, failing) ==
    IF st.queue = <<>> \/ Len(st.resultNodes) >= limit THEN st
    ELSE LET h == Head(st.queue)
             popped == [st EXCEPT !.queue = Tail(@)]
         IN IF h.currentDepth >= depth
            THEN traverse(popped, depth, limit, direction, failing)
            ELSE traverse(
                   expand([popped EXCEPT !.expanded = Append(@, h.uid)], h,
                          getConnectedUidsCaught(h.uid, direction, failing),
                          depth),
                   depth, limit, direction, failing)

\* The nodes in reverse order of discovery.
Reversed(nodes) == [i \in 1..Len(nodes) |-> nodes[Len(nodes) + 1 - i]]

\* sort((a, b) => b.score - a.score): by score descending, stable.
InsertByScore(sorted, node) ==
    LET k == Cardinality({i \in DOMAIN sorted : sorted[i].score >= node.score})
    IN SubSeq(sorted, 1, k) \o <<node>> \o SubSeq(sorted, k + 1, Len(sorted))

RECURSIVE sortByScore(_)
sortByScore(nodes) ==
    IF nodes = <<>> THEN <<>>
    ELSE InsertByScore(sortByScore(SubSeq(nodes, 1, Len(nodes) - 1)),
                       nodes[Len(nodes)])

\* Every node found, however many.
KeepAll(nodes, limit) == nodes

\* slice(0, limit)
sliceToLimit(nodes, limit) == Take(nodes, limit)

\* The traversal of findConnectedNotes(startUid, {depth, limit, direction})
\* while the lookups of the nodes in `failing` throw.
traversalWith(startUid, depth, limit, direction, failing) ==
    traverse([visitedNodes |-> {startUid}, resultNodes |-> <<>>,
              queue |-> <<[uid |-> startUid, currentDepth |-> 0,
                           score |-> ScoreOne]>>,
              expanded |-> <<>>],
             depth, limit, direction, failing)

\* The traversal when every lookup succeeds.
traversal(startUid, depth, limit, direction) ==
    traversalWith(startUid, depth, limit, direction, {})

\* The end of findConnectedNotes: the nodes found, sorted and cut.
returned(resultNodes, limit) == sliceToLimit(sortByScore(resultNodes), limit)

findConnectedNotes(startUid, depth, limit, direction) ==
    returned(traversal(startUid, depth, limit, direction).resultNodes, limit)

\* findConnectedNotes is called; the call record keeps what it returned and
\* the nodes whose connections it queried, in order.
FindConnectedNotes ==
    \E startUid \in Nodes, depth \in 0..MaxDepth, limit \in Limits,
       direction \in Directions :
       \E t \in {traversal(startUid, depth, limit, direction)} :
       /\ lastOp' = [op |-> "findConnectedNotes",
                     note |-> [startUid |-> startUid, depth |-> depth,
                               limit |-> limit, direction |-> direction],
                     result |-> "ok", again |-> FALSE,
                     nodes |-> returned(t.resultNodes, limit),
                     expanded |-> t.expanded]
       /\ UNCHANGED <<notes, fts, linkRows, toolVars, backlinkVars, utilVars>>

\* The link rows a graph is drawn from: a cycle a -> b -> c -> d -> a, the
\* back edge b -> a and a stronger shortcut a -> c.
GraphLinks ==
    {[source_uid |-> "a", target_uid |-> "b", strength |-> 1],
     [source_uid |-> "b", target_uid |-> "c", strength |-> 1],
     [source_uid |-> "c", target_uid |-> "d", strength |-> 1],
     [source_uid |-> "d", target_uid |-> "a", strength |-> 1],
     [source_uid |-> "b", target_uid |-> "a", strength |-> 1],
     [source_uid |-> "a", target_uid |-> "c", strength |-> 2]}

GraphNote(u) == [uid |-> u, file_path |-> u, content_hash |-> <<>>]

\* Any of these graphs, over notes that are all indexed or all but d.
InitGraph ==
    /\ notes \in {{GraphNote(u) : u \in Nodes},
                  {GraphNote(u) : u \in Nodes \ {"d"}}}
    /\ fts = EmptyBag
    /\ linkRows \in SUBSET GraphLinks
    /\ lastOp = NoCall
    /\ ToolIdle
    /\ UtilIdle
    /\ BacklinkIdle

NextGraph == FindConnectedNotes

SpecGraph == InitGraph /\ [][NextGraph]_vars

Ids(nodes) == {nodes[i].id : i \in DOMAIN nodes}

\* C24: for every start, direction, limit and depth k >= 1, each node that
\* findConnectedNotes returns for depth k - 1 is returned for depth k.
C24_ConnectedMonotoneInDepth ==
    (lastOp.op = "findConnectedNotes" /\ lastOp.note.depth >= 1)
    => Ids(findConnectedNotes(lastOp.note.startUid, lastOp.note.depth - 1,
                              lastOp.note.limit, lastOp.note.direction))
          \subseteq Ids(lastOp.nodes)

\* A depth-2 traversal cut at limit 2 holds both nodes of the depth-1
\* traversal although more nodes were within reach.
C24_Witness ==
    /\ lastOp.op = "findConnectedNotes"
    /\ lastOp.note.depth = 2 /\ lastOp.note.limit = 2
    /\ Len(lastOp.nodes) = 2
    /\ Cardinality(Ids(findConnectedNotes(lastOp.note.startUid, 1, 2,
                                          lastOp.note.direction))) = 2
    /\ Cardinality(Ids(findConnectedNotes(lastOp.note.startUid, 2, DefaultLimit,
                                          lastOp.note.direction))) = 3

\* C25: findConnectedNotes(start, depth = 0) returns only the start node,
\* with score 1.0 and depth 0.
C25_DepthZeroReturnsStart ==
    (lastOp.op = "findConnectedNotes" /\ lastOp.note.depth = 0)
    => lastOp.nodes = <<[id |-> lastOp.note.startUid, score |-> ScoreOne,
                         depth |-> 0]>>

\* One hop along a link row, in the direction asked for.
Hop(from, direction) ==
    {r.target_uid : r \in {x \in linkRows : /\ x.source_uid = from
                                            /\ direction # "incoming"}}
      \cup {r.source_uid : r \in {x \in linkRows : /\ x.target_uid = from
                                                  /\ direction # "outgoing"}}

RECURSIVE Within(_, _, _)
\* The nodes at most k hops away from start.
Within(start, k, direction) ==
    IF k = 0 THEN {start}
    ELSE LET near == Within(start, k - 1, direction)
         IN near \cup UNION {Hop(u, direction) : u \in near}

RECURSIVE ScoreAtDepth(_)
\* parent_score x 0.7^current_depth along a path from the start (1.0).
ScoreAtDepth(d) ==
    IF d = 0 THEN ScoreOne
    ELSE (ScoreAtDepth(d - 1) * Pow(7, d - 1)) \div Pow(10, d - 1)

NoRepeat(seq) == \A i, j \in DOMAIN seq : seq[i] = seq[j] => i = j

\* C26: on every link graph, cyclic ones included, findConnectedNotes
\* returns; it queries the connections of no node twice, returns no node
\* twice, returns only nodes within depth hops of the start, at most limit
\* of them, sorted by score descending, and the score of a node found at
\* depth d is the product of 0.7^current_depth along its path from 1.0.
C26_BoundedBreadthFirst ==
    lastOp.op = "findConnectedNotes"
    => LET q == lastOp.note
           ns == lastOp.nodes
       IN /\ NoRepeat(lastOp.expanded)
          /\ NoRepeat([i \in DOMAIN ns |-> ns[i].id])
          /\ Len(ns) <= q.limit
          /\ \A i \in DOMAIN ns :
                /\ ns[i].depth >= 1 /\ ns[i].depth <= q.depth
                /\ ns[i].id \in Within(q.startUid, ns[i].depth, q.direction)
                /\ ns[i].score = ScoreAtDepth(ns[i].depth)
          /\ \A i, j \in DOMAIN ns : i < j => ns[i].score >= ns[j].score

\* A traversal of depth 3 over a graph with the cycle a -> b -> a that
\* stopped at its limit of two nodes before it reached d.
C26_Witness ==
    /\ lastOp.op = "findConnectedNotes"
    /\ lastOp.note = [startUid |-> "a", depth |-> 3, limit |-> 2,
                      direction |-> "outgoing"]
    /\ {[source_uid |-> "a", target_uid |-> "b", strength |-> 1],
        [source_uid |-> "b", target_uid |-> "a", strength |-> 1],
        [source_uid |-> "b", target_uid |-> "c", strength |-> 1],
        [source_uid |-> "c", target_uid |-> "d", strength |-> 1]} = linkRows
    /\ [i \in DOMAIN lastOp.nodes |-> lastOp.nodes[i].id] = <<"b", "c">>
    /\ lastOp.expanded = <<"a", "b">>

\* ---- findOrphanNotes ----

\* The default limit of findOrphanNotes.
OrphanLimit == 50

OrphanLimits == {1, OrphanLimit}

RECURSIVE OrderByUpdated(_)
\* ORDER BY n.updated_at DESC
OrderByUpdated(rows) ==
    IF rows = {} THEN <<>>
    ELSE LET newest == CHOOSE r \in rows : \A q \in rows :
                          \/ r.updated_at > q.updated_at
                          \/ r.updated_at = q.updated_at /\ Rank(r.uid) <= Rank(q.uid)
         IN <<newest>> \o OrderByUpdated(rows \ {newest})

\* The orphans query: notes LEFT JOIN links ON uid = target_uid, kept where
\* no link row matched.
findOrphanNotes(limit) ==
    Take(OrderByUpdated({n \in notes :
                            ~\E l \in linkRows : l.target_uid = n.uid}),
         limit)

\* findOrphanNotes is called; the record keeps the call made before it.
FindOrphanNotes ==
    \E limit \in OrphanLimits :
       /\ lastOp' = [op |-> "findOrphanNotes", note |-> limit,
                     result |-> "ok", again |-> FALSE,
                     orphans |-> findOrphanNotes(limit),
                     prev |-> [op |-> lastOp.op, note |-> lastOp.note,
                               result |-> lastOp.result]]
       /\ UNCHANGED <<notes, fts, linkRows, toolVars, backlinkVars, utilVars>>

\* The chain a -> b -> c, indexed.
ChainLinks ==
    {[source_uid |-> "a", target_uid |-> "b", strength |-> 1],
     [source_uid |-> "b", target_uid |-> "c", strength |-> 1]}

\* The notes a, b, c with their updated_at times, in either order of age.
ChainNotes(updated) ==
    {[uid |-> u, file_path |-> u, content_hash |-> <<>>,
      updated_at |-> updated[u]] : u \in Uids}

InitOrphans ==
    /\ \E updated \in {[a |-> 1, b |-> 2, c |-> 3], [a |-> 3, b |-> 2, c |-> 1]} :
          notes = ChainNotes(updated)
    /\ fts = SetToBag({[uid |-> u, content |-> <<>>] : u \in Uids})
    /\ linkRows \in {ChainLinks,
                     ChainLinks \cup {[source_uid |-> "c", target_uid |-> "a",
                                       strength |-> 1]}}
    /\ lastOp = NoCall
    /\ ToolIdle
    /\ UtilIdle
    /\ BacklinkIdle

NextOrphans == RemoveNote \/ FindOrphanNotes

SpecOrphans == InitOrphans /\ [][NextOrphans]_vars

\* C27: findOrphanNotes returns exactly the indexed notes no link row points
\* to, most recently updated first; and asked right after the index removal
\* of b from the chain a -> b -> c it returns both a and c.
C27_OrphansHaveNoInboundLink ==
    lastOp.op = "findOrphanNotes"
    => LET os == lastOp.orphans
           uids == {os[i].uid : i \in DOMAIN os}
       IN /\ Len(os) <= lastOp.note
          /\ \A i \in DOMAIN os :
                /\ os[i] \in notes
                /\ ~\E l \in linkRows : l.target_uid = os[i].uid
          /\ Len(os) < lastOp.note
                => \A n \in notes :
                      (~\E l \in linkRows : l.target_uid = n.uid) => n.uid \in uids
          /\ \A i, j \in DOMAIN os : i < j => os[i].updated_at >= os[j].updated_at
          /\ (/\ lastOp.prev.op = "removeNote"
              /\ lastOp.prev.note = "b"
              /\ lastOp.prev.result = "ok"
              /\ lastOp.note = OrphanLimit
              /\ {n.uid : n \in notes} = {"a", "c"}
              /\ linkRows \subseteq ChainLinks)
             => uids = {"a", "c"}

\* ------------------------------------------------------------------------
\* common/utils: generateUid
\* ------------------------------------------------------------------------

\* uidCounter = (uidCounter + 1) % 1000
CounterModulus == 1000

\* Milliseconds the clock advances while UIDs are generated.
MaxClock == 2

\* The UID as a number: the timestamp to the millisecond followed by the
\* three digits of the counter, which orders as the 24-character string does.
UidOf(now, counter) == now * 1000 + counter

\* generateUid(): reads the clock, bumps the counter, returns the UID.
generateUid ==
    /\ uidGen' = [uidGen EXCEPT
                    !.uidCounter = (@ + 1) % CounterModulus,
                    !.last = UidOf(uidGen.now,
                                   (uidGen.uidCounter + 1) % CounterModulus)]
    /\ UNCHANGED <<para, watch, indexVars, toolVars, backlinkVars>>

\* A millisecond passes.
ClockTick ==
    /\ uidGen.now < MaxClock
    /\ uidGen' = [uidGen EXCEPT !.now = @ + 1]
    /\ UNCHANGED <<para, watch, indexVars, toolVars, backlinkVars>>

InitUid == IndexInit /\ ToolIdle /\ BacklinkIdle /\ UtilIdle

NextUid == generateUid \/ ClockTick

SpecUid == InitUid /\ [][NextUid]_vars

\* C28: every UID generateUid returns is greater than the one it returned
\* just before, hence distinct from all earlier ones.
C28_UidStrictlyMonotone ==
    [][uidGen'.uidCounter # uidGen.uidCounter
       => uidGen'.last > uidGen.last]_vars

\* ---------------------------------------------------------------------
\* ParaManager (storage-md/para-manager.ts): category routing and moves.
\* ---------------------------------------------------------------------

\* A project or directory name is a sequence of characters: an ordinary
\* one, a blank, and one of the characters sanitizeDirName replaces.
Chars == {"p", " ", "/"}
Whitespace == {" "}
Forbidden == {"/"}
MaxProjectLen == 2
ProjectNames ==
    UNION {[1..n -> Chars] : n \in 0..MaxProjectLen}

ValidCategories == {"Projects", "Areas", "Resources", "Archives"}
HeaderCategories == ValidCategories \cup {"Other"}

\* DEFAULT_PARA_CONFIG.directories
directories ==
    [c \in ValidCategories |->
        CASE c = "Projects" -> "1-Projects"
          [] c = "Areas" -> "2-Areas"
          [] c = "Resources" -> "3-Resources"
          [] OTHER -> "4-Archives"]

ArchiveThresholdDays == 90
HoursPerDay == 24
MaxDirName == 50

\* The note has no `updated` value.
NoUpdated == -1

\* Hours since `updated`, around the threshold: just updated, exactly 90
\* days, 90 days and a half, exactly 91 days, 100 days.
Ages ==
    {0, ArchiveThresholdDays * HoursPerDay,
     ArchiveThresholdDays * HoursPerDay + 12,
     (ArchiveThresholdDays + 1) * HoursPerDay,
     100 * HoursPerDay, NoUpdated}

\* String.prototype.trim
RECURSIVE trimStart(_)
trimStart(s) ==
    IF s # <<>> /\ Head(s) \in Whitespace THEN trimStart(Tail(s)) ELSE s

RECURSIVE trimEnd(_)
trimEnd(s) ==
    IF s # <<>> /\ s[Len(s)] \in Whitespace
    THEN trimEnd(SubSeq(s, 1, Len(s) - 1))
    ELSE s

trim(s) == trimEnd(trimStart(s))

\* replace(/[<>:"/\\|?*]/g, '-') and replace(/\s+/g, '-'): after both,
\* every forbidden character and every blank of a run is a dash, and the
\* next step collapses the run.
Dashed(s) ==
    [i \in 1..Len(s) |->
        IF s[i] \in Forbidden \cup Whitespace THEN "-" ELSE s[i]]

\* replace(/-+/g, '-')
RECURSIVE Collapse(_)
Collapse(s) ==
    IF Len(s) < 2 THEN s
    ELSE IF s[1] = "-" /\ s[2] = "-" THEN Collapse(Tail(s))
    ELSE <<Head(s)>> \o Collapse(Tail(s))

\* replace(/^-|-$/g, '')
StripDash(s) ==
    LET a == IF s # <<>> /\ Head(s) = "-" THEN Tail(s) ELSE s
    IN  IF a # <<>> /\ a[Len(a)] = "-" THEN SubSeq(a, 1, Len(a) - 1) ELSE a

sanitizeDirName(name) ==
    Take(StripDash(Collapse(Dashed(name))), MaxDirName)

\* shouldArchive with whole days compared as written.
ArchiveByDuration(age) ==
    age # NoUpdated /\ age > ArchiveThresholdDays * HoursPerDay

\* shouldArchive: whole days since `updated`, rounded down.
shouldArchive(age) ==
    IF age = NoUpdated THEN FALSE
    ELSE (age \div HoursPerDay) > ArchiveThresholdDays

determineTargetCategory(note) ==
    IF note.project # <<>> /\ trim(note.project) # <<>> THEN "Projects"
    ELSE IF shouldArchive(note.age) THEN "Archives"
    ELSE IF note.category \in ValidCategories THEN note.category
    ELSE "Resources"

\* A path is the directory under the root and the project subdirectory;
\* the file name comes from the title, which no operation changes.
\* path.join drops an empty component.
calculateTargetPath(config, note, category) ==
    [dir |-> directories[category],
     sub |-> IF /\ category = "Projects"
                /\ config.createProjectSubdirs
                /\ note.project # <<>>
             THEN sanitizeDirName(note.project)
             ELSE <<>>]

\* The project directory calculateTargetPath makes sure exists.
ensuredByTargetPath(config, note, category) ==
    IF /\ category = "Projects"
       /\ config.createProjectSubdirs
       /\ note.project # <<>>
    THEN {calculateTargetPath(config, note, category)}
    ELSE {}

NoPath == [dir |-> "", sub |-> <<>>]

\* What the last organizeNote call was given and what it did: kind is
\* "none" before any call, "null" or "path" for the value returned and
\* "error" for a throw.
Outcome(kind, path, p, moved, saved) ==
    [kind |-> kind, path |-> path, note |-> p.note, filePath |-> p.filePath,
     moved |-> moved, saved |-> saved]

ParaFailPoints == {"none", "move", "save"}

\* moveFile(source, target): the file is at target afterwards.
moveFile(p, targetPath) == [p EXCEPT !.filePath = targetPath]

\* saveNote(note): the file at note.filePath holds the note's header.
saveNote(p, filePath, note) == [p EXCEPT !.filePath = filePath, !.note = note]

\* updateFrontMatter(frontMatter, {category})
updateFrontMatter(note, category) == [note EXCEPT !.category = category]

moveNote(p, targetPath, targetCategory, fail) ==
    LET ensured == [p EXCEPT !.dirs = @ \cup {targetPath}]
        moved == moveFile(ensured, targetPath)
        saved == saveNote(moved, targetPath,
                          updateFrontMatter(p.note, targetCategory))
    IN  CASE fail = "move" ->
               [ensured EXCEPT !.call = Outcome("error", NoPath, p, FALSE, FALSE)]
          [] fail = "save" ->
               [moved EXCEPT !.call = Outcome("error", NoPath, p, TRUE, FALSE)]
          [] OTHER ->
               [saved EXCEPT !.events = @ + 1,
                             !.call = Outcome("path", targetPath, p, TRUE, TRUE)]

\* updateNoteCategory with the file moved as moveNote moves it.
MoveRegardless(p, category, fail) ==
    moveNote(p, calculateTargetPath(p.config, p.note, category), category, fail)

updateNoteCategory(p, category, fail) ==
    IF fail = "save"
    THEN [p EXCEPT !.call = Outcome("error", NoPath, p, FALSE, FALSE)]
    ELSE [saveNote(p, p.filePath, updateFrontMatter(p.note, category))
            EXCEPT !.call = Outcome("path", p.filePath, p, FALSE, TRUE)]

\* organizeNote(note) on an initialized manager; note is the file as it
\* is on disk.
organize(p, fail) ==
    LET targetCategory == determineTargetCategory(p.note)
        targetPath == calculateTargetPath(p.config, p.note, targetCategory)
        q == [p EXCEPT !.dirs = @ \cup
                 ensuredByTargetPath(p.config, p.note, targetCategory)]
    IN  IF p.note.category = targetCategory
        THEN [p EXCEPT !.call = Outcome("null", NoPath, p, FALSE, FALSE)]
        ELSE IF p.filePath = targetPath
        THEN updateNoteCategory(q, targetCategory, fail)
        ELSE IF p.config.autoMove
        THEN moveNote(q, targetPath, targetCategory, fail)
        ELSE updateNoteCategory(q, targetCategory, fail)

\* initialize(): creates the four category directories.
initialize ==
    /\ para.pc = "created"
    /\ para' = [para EXCEPT
                  !.pc = "ready",
                  !.dirs = @ \cup {[dir |-> directories[c], sub |-> <<>>] :
                                     c \in ValidCategories}]
    /\ UNCHANGED <<uidGen, watch, indexVars, toolVars, backlinkVars>>

\* organizeNote before initialize throws PARA_NOT_INITIALIZED.
organizeNoteUninitialized ==
    /\ para.pc = "created"
    /\ para' = [para EXCEPT
                  !.call = Outcome("error", NoPath, para, FALSE, FALSE)]
    /\ UNCHANGED <<uidGen, watch, indexVars, toolVars, backlinkVars>>

organizeNote ==
    /\ para.pc = "ready"
    /\ \E fail \in ParaFailPoints : para' = organize(para, fail)
    /\ UNCHANGED <<uidGen, watch, indexVars, toolVars, backlinkVars>>

ParaNotes ==
    [category : HeaderCategories, project : ProjectNames, age : Ages]

\* Where the file may be when the manager is created: in a category
\* directory or outside them, in the project's subdirectory or not.
ParaPaths(note) ==
    [dir : {directories[c] : c \in ValidCategories} \cup {"inbox"},
     sub : {<<>>, sanitizeDirName(note.project)}]

InitPara ==
    /\ IndexInit /\ ToolIdle /\ BacklinkIdle
    /\ uidGen = NoUid
    /\ watch = NoWatch
    /\ \E note \in ParaNotes, autoMove \in BOOLEAN,
          createProjectSubdirs \in BOOLEAN :
          \E filePath \in ParaPaths(note) :
             para = [pc |-> "created",
                     config |-> [autoMove |-> autoMove,
                                 createProjectSubdirs |-> createProjectSubdirs],
                     note |-> note,
                     filePath |-> filePath,
                     dirs |-> {},
                     events |-> 0,
                     call |-> [kind |-> "none", path |-> NoPath, note |-> note,
                               filePath |-> filePath, moved |-> FALSE,
                               saved |-> FALSE]]

NextPara == initialize \/ organizeNoteUninitialized \/ organizeNote

SpecPara == InitPara /\ [][NextPara]_vars

\* The target category as the priority list words it: a project that is
\* not the empty string, then an age above the threshold.
TargetAsStated(note) ==
    IF note.project # <<>> THEN "Projects"
    ELSE IF note.age # NoUpdated
            /\ note.age > ArchiveThresholdDays * HoursPerDay THEN "Archives"
    ELSE IF note.category \in ValidCategories THEN note.category
    ELSE "Resources"

\* The same list with a project that has a character other than a blank,
\* and an age of more whole days than the threshold.
TargetInWholeDays(note) ==
    IF \E i \in DOMAIN note.project : note.project[i] \notin Whitespace
    THEN "Projects"
    ELSE IF note.age # NoUpdated
            /\ note.age >= (ArchiveThresholdDays + 1) * HoursPerDay
    THEN "Archives"
    ELSE IF note.category \in ValidCategories THEN note.category
    ELSE "Resources"

\* A finished organizeNote call routed its note by target: null with the
\* file and header untouched when the note was in its target category,
\* and otherwise the header carries the target category.
RoutedBy(target(_)) ==
    LET c == para.call
    IN  (para.pc = "ready" /\ c.kind \in {"null", "path"})
        => /\ (c.kind = "null") <=> (c.note.category = target(c.note))
           /\ c.kind = "null"
              => /\ ~c.moved /\ ~c.saved
                 /\ para.note = c.note
                 /\ para.filePath = c.filePath
           /\ c.kind = "path" => para.note.category = target(c.note)

\* C29 as stated: the target category is Projects for a non-empty
\* project, else Archives when now - updated exceeds the threshold, else
\* the valid category the note has, else Resources; a note already in
\* its target category makes organizeNote return null and is neither
\* moved nor rewritten.
C29_AsStated == RoutedBy(TargetAsStated)

\* C29: the target category is Projects for a project that is non-empty
\* after trimming, else Archives when the whole days since `updated`
\* exceed the threshold, else the valid category the note has, else
\* Resources; a note already in its target category makes organizeNote
\* return null and is neither moved nor rewritten.
C29_TargetByPriority == RoutedBy(TargetInWholeDays)

\* organizeNote returned null for a note in Areas, outside the Areas
\* directory, whose project is a blank and whose `updated` is 90 days
\* and a half ago.
C29_Witness ==
    /\ para.pc = "ready"
    /\ para.call.kind = "null"
    /\ para.call.note.category = "Areas"
    /\ para.call.note.project = <<" ">>
    /\ para.call.note.age = ArchiveThresholdDays * HoursPerDay + 12
    /\ para.filePath.dir = "inbox"

\* C30: an organizeNote call that had to change the note's category and
\* returned has rewritten the header with the target category and nothing
\* else of it; with auto-move enabled the file is at the target path,
\* which is the value returned, and with auto-move disabled the file is
\* where it was, which is the value returned, and was not moved, also
\* when the call threw.
C30_MoveOnlyWithAutoMove ==
    LET c == para.call
        targetCategory == TargetInWholeDays(c.note)
        targetPath == calculateTargetPath(para.config, c.note, targetCategory)
    IN  /\ (para.pc = "ready" /\ c.kind = "error" /\ ~para.config.autoMove)
           => /\ para.filePath = c.filePath
              /\ ~c.moved
        /\ (para.pc = "ready" /\ c.kind = "path")
           => /\ c.note.category # targetCategory
              /\ c.saved
              /\ para.note = [c.note EXCEPT !.category = targetCategory]
              /\ para.config.autoMove
                 => /\ para.filePath = targetPath
                    /\ c.path = targetPath
                    /\ c.moved <=> c.filePath # targetPath
                    /\ para.events = IF c.moved THEN 1 ELSE 0
              /\ ~para.config.autoMove
                 => /\ para.filePath = c.filePath
                    /\ c.path = c.filePath
                    /\ ~c.moved
                    /\ para.events = 0

\* With auto-move enabled, a note in Resources outside the category
\* directories, with project "p", was moved to 1-Projects/p and its
\* header says Projects.
C30_Witness ==
    /\ para.pc = "ready"
    /\ para.config.autoMove
    /\ para.config.createProjectSubdirs
    /\ para.call.kind = "path"
    /\ para.call.moved
    /\ para.call.filePath = [dir |-> "inbox", sub |-> <<>>]
    /\ para.call.note.category = "Resources"
    /\ para.filePath = [dir |-> "1-Projects", sub |-> <<"p">>]
    /\ para.note.category = "Projects"

\* ---------------------------------------------------------------------
\* ParaManager over a vault of several notes: archiveOldNotes,
\* archiveProject and organizeNote, with file names from the titles.
\* ---------------------------------------------------------------------

ParaIds == <<"n1", "n2">>
ParaIdSet == {ParaIds[i] : i \in DOMAIN ParaIds}

\* The title of n1, and for n2 a title that sanitizeDirName maps to the
\* same name and one that it does not.
Titles ==
    [n1 |-> {<<"p">>}, n2 |-> {<<"p", "/">>, <<"p", "p">>}]
VaultProjects == {<<>>, <<"p">>}
VaultAges == {0, 100 * HoursPerDay}

\* generateFileName(title); the ".md" suffix is the same for all.
generateFileName(title) == sanitizeDirName(title)

DefaultConfig == [autoMove |-> TRUE, createProjectSubdirs |-> TRUE]

\* calculateTargetPath with the file name it appends.
targetPathOf(config, file, category) ==
    LET t == calculateTargetPath(config, file.note, category)
    IN  [dir |-> t.dir, sub |-> t.sub, name |-> generateFileName(file.title)]

\* The single-note view of a file that moveNote and updateNoteCategory
\* work on.
ViewOf(file) ==
    [pc |-> "ready", config |-> DefaultConfig, note |-> file.note,
     filePath |-> file.filePath, dirs |-> {}, events |-> 0,
     call |-> Outcome("none", NoPath, file, FALSE, FALSE)]

\* The vault after the call on file id left the view q: the file has
\* q's path and header, and a rename onto the path of another file
\* replaced that file.
WriteBack(files, id, q) ==
    [j \in ParaIdSet |->
        IF j = id
        THEN [files[j] EXCEPT !.filePath = q.filePath, !.note = q.note]
        ELSE IF /\ q.call.moved
                /\ files[j].exists
                /\ files[j].filePath = q.filePath
        THEN [files[j] EXCEPT !.exists = FALSE]
        ELSE files[j]]

NoteMoved(id, q, reason) ==
    [noteId |-> id, toPath |-> q.filePath, toCategory |-> q.note.category,
     reason |-> reason]

\* organizeNote(note) for the file id of the vault.
organizeInVault(files, id, fail) ==
    LET file == files[id]
        p == ViewOf(file)
        targetCategory == determineTargetCategory(file.note)
        targetPath == targetPathOf(p.config, file, targetCategory)
    IN  IF file.note.category = targetCategory
        THEN [p EXCEPT !.call = Outcome("null", NoPath, p, FALSE, FALSE)]
        ELSE IF file.filePath = targetPath
        THEN updateNoteCategory(p, targetCategory, fail)
        ELSE IF p.config.autoMove
        THEN moveNote(p, targetPath, targetCategory, fail)
        ELSE updateNoteCategory(p, targetCategory, fail)

\* The test each loop applies to a loaded note: shouldArchive(note) in
\* archiveOldNotes, note.frontMatter.project === projectName in
\* archiveProject.
selects(selector, note) ==
    IF selector.by = "age" THEN shouldArchive(note.age)
    ELSE note.project = selector.project

\* The loop body of archiveOldNotes and archiveProject over the listed
\* files: a file whose load, move or save throws is skipped.
RECURSIVE archiveEach(_, _, _, _, _)
archiveEach(st, listed, selector, reason, fails) ==
    IF listed = <<>> THEN st
    ELSE
        LET id == Head(listed)
            file == st.files[id]
            q == moveNote(ViewOf(file),
                          targetPathOf(DefaultConfig, file, "Archives"),
                          "Archives", fails[id])
            next ==
                IF ~file.exists \/ fails[id] = "load"
                THEN [st EXCEPT !.failed = @ \cup {id}]
                ELSE IF ~selects(selector, file.note)
                THEN st
                ELSE [files |-> WriteBack(st.files, id, q),
                      emitted |->
                          IF q.call.kind = "path"
                          THEN Append(st.emitted, NoteMoved(id, q, reason))
                          ELSE st.emitted,
                      archived |->
                          IF q.call.kind = "path"
                          THEN Append(st.archived, id)
                          ELSE st.archived,
                      failed |->
                          IF q.call.kind = "error"
                          THEN st.failed \cup {id}
                          ELSE st.failed]
        IN  archiveEach(next, Tail(listed), selector, reason, fails)

\* listFiles(categoryDir, /\.md$/i, true)
listFiles(files, dir) ==
    SelectSeq(ParaIds, LAMBDA id : files[id].exists /\ files[id].filePath.dir = dir)

\* At most one file of a batch fails, at its load, move or save.
VaultFails ==
    {[id \in ParaIdSet |-> "none"]} \cup
    {[id \in ParaIdSet |-> IF id = bad THEN f ELSE "none"] :
        bad \in ParaIdSet, f \in {"load", "move", "save"}}

\* The record of the last ParaManager call on the vault: the files
\* before it, the events it emitted and the notes it returned.
VaultCall(op, arg, kind, before, st) ==
    [op |-> op, arg |-> arg, kind |-> kind, before |-> before,
     emitted |-> st.emitted, archived |-> st.archived, failed |-> st.failed]

\* archiveOldNotes(): the Projects directory, then the Areas directory.
archiveOldNotes ==
    /\ para.pc = "vault"
    /\ \E fails \in VaultFails :
         LET start == [files |-> para.files, emitted |-> <<>>, archived |-> <<>>,
                       failed |-> {}]
             projectsDone ==
                 archiveEach(start, listFiles(start.files, directories["Projects"]),
                             [by |-> "age"],
                             "auto-archive", fails)
             areasDone ==
                 archiveEach(projectsDone,
                             listFiles(projectsDone.files, directories["Areas"]),
                             [by |-> "age"],
                             "auto-archive", fails)
         IN  para' = [para EXCEPT
                        !.files = areasDone.files,
                        !.everArchived = @ \cup
                            {areasDone.archived[i] : i \in DOMAIN areasDone.archived},
                        !.call = VaultCall("archiveOldNotes", <<>>, "list",
                                           para.files, areasDone)]
    /\ UNCHANGED <<uidGen, watch, indexVars, toolVars, backlinkVars>>

\* archiveProject(projectName): the Projects directory only.
archiveProject ==
    /\ para.pc = "vault"
    /\ \E projectName \in VaultProjects \ {<<>>},
          fails \in VaultFails :
         LET start == [files |-> para.files, emitted |-> <<>>, archived |-> <<>>,
                       failed |-> {}]
             done ==
                 archiveEach(start, listFiles(start.files, directories["Projects"]),
                             [by |-> "project", project |-> projectName],
                             "manual", fails)
         IN  para' = [para EXCEPT
                        !.files = done.files,
                        !.everArchived = @ \cup
                            {done.archived[i] : i \in DOMAIN done.archived},
                        !.call = VaultCall("archiveProject", projectName, "list",
                                           para.files, done)]
    /\ UNCHANGED <<uidGen, watch, indexVars, toolVars, backlinkVars>>

\* organizeNote(note) with the note loaded from one file of the vault.
organizeVaultNote ==
    /\ para.pc = "vault"
    /\ \E id \in ParaIdSet, fail \in ParaFailPoints :
         /\ para.files[id].exists
         /\ LET q == organizeInVault(para.files, id, fail)
                st == [emitted |->
                           IF q.call.kind = "path" /\ q.call.moved
                           THEN <<NoteMoved(id, q, "category-change")>>
                           ELSE <<>>,
                       archived |-> <<>>,
                       failed |-> IF q.call.kind = "error" THEN {id} ELSE {}]
            IN  para' = [para EXCEPT
                           !.files = WriteBack(para.files, id, q),
                           !.call = VaultCall("organizeNote", id, q.call.kind,
                                              para.files, st)]
    /\ UNCHANGED <<uidGen, watch, indexVars, toolVars, backlinkVars>>

\* A file in the directory of its header's category, named after its
\* title.
VaultFile(title, category, project, age) ==
    LET note == [category |-> category, project |-> project, age |-> age]
        file == [exists |-> TRUE, title |-> title, note |-> note,
                 filePath |-> NoPath]
    IN  [file EXCEPT !.filePath = targetPathOf(DefaultConfig, file, category)]

VaultFiles(id) ==
    {VaultFile(t, c, pr, a) :
        t \in Titles[id], c \in ValidCategories, pr \in VaultProjects,
        a \in VaultAges}

InitVault ==
    /\ IndexInit /\ ToolIdle /\ BacklinkIdle
    /\ uidGen = NoUid
    /\ watch = NoWatch
    /\ \E files \in [ParaIdSet -> UNION {VaultFiles(id) : id \in ParaIdSet}] :
         /\ \A id \in ParaIdSet : files[id] \in VaultFiles(id)
         /\ \A i, j \in ParaIdSet :
               i # j => files[i].filePath # files[j].filePath
         /\ para = [pc |-> "vault",
                    files |-> files,
                    everArchived |-> {},
                    call |-> VaultCall("none", <<>>, "none", files,
                                       [emitted |-> <<>>, archived |-> <<>>,
                                        failed |-> {}])]

NextVault == archiveOldNotes \/ archiveProject \/ organizeVaultNote

SpecVault == InitVault /\ [][NextVault]_vars

\* What archiveOldNotes and archiveProject look at: the files under the
\* directories they list whose note meets their condition.
SourceDirs(c) ==
    IF c.op = "archiveOldNotes"
    THEN {directories["Projects"], directories["Areas"]}
    ELSE {directories["Projects"]}

Selected(c, file) ==
    /\ file.exists
    /\ file.filePath.dir \in SourceDirs(c)
    /\ IF c.op = "archiveOldNotes"
       THEN /\ file.note.age # NoUpdated
            /\ file.note.age >= (ArchiveThresholdDays + 1) * HoursPerDay
       ELSE file.note.project = c.arg

EventsFor(c, id) == SelectSeq(c.emitted, LAMBDA e : e.noteId = id)

\* C31: a finished archiveOldNotes or archiveProject call left every
\* file outside its source directories, and every file its condition
\* does not select, as it was; every note it archived has its file under
\* the Archives directory with header category Archives and exactly one
\* NoteMoved event with the call's reason; every selected file that did
\* not fail was archived.
C31_ArchiveBatches ==
    LET c == para.call
        reason == IF c.op = "archiveOldNotes" THEN "auto-archive" ELSE "manual"
    IN  (para.pc = "vault" /\ c.op \in {"archiveOldNotes", "archiveProject"})
        => \A id \in ParaIdSet :
              /\ ~Selected(c, c.before[id]) => para.files[id] = c.before[id]
              /\ (\E i \in DOMAIN c.archived : c.archived[i] = id)
                 => /\ Selected(c, c.before[id])
                    /\ para.files[id].exists
                    /\ para.files[id].filePath.dir = directories["Archives"]
                    /\ para.files[id].note.category = "Archives"
                    /\ Len(EventsFor(c, id)) = 1
                    /\ EventsFor(c, id)[1].reason = reason
                    /\ EventsFor(c, id)[1].toCategory = "Archives"
              /\ (Selected(c, c.before[id]) /\ id \notin c.failed)
                 => \E i \in DOMAIN c.archived : c.archived[i] = id
              /\ (~\E i \in DOMAIN c.archived : c.archived[i] = id)
                 => EventsFor(c, id) = <<>>

\* C37: an organizeNote call that returned, on a note that an earlier
\* archiveOldNotes or archiveProject call archived, returned null and
\* left every file as it was, so that the note stays in Archives.
C37_ArchivingIsStable ==
    LET c == para.call
    IN  (/\ para.pc = "vault"
         /\ c.op = "organizeNote"
         /\ c.arg \in para.everArchived
         /\ c.kind # "error")
        => /\ c.kind = "null"
           /\ para.files = c.before
           /\ para.files[c.arg].note.category = "Archives"

\* C38: no ParaManager call destroys a note: every file that existed
\* before the call exists after it with its own title.
C38_MoveNeverDestroys ==
    para.pc = "vault"
    => \A id \in ParaIdSet :
          para.call.before[id].exists
          => /\ para.files[id].exists
             /\ para.files[id].title = para.call.before[id].title

\* ---------------------------------------------------------------------
\* Debounced file-change events (common/utils.ts debounce, VaultWatcher).
\* ---------------------------------------------------------------------

WatchPaths == {"x.md", "y.md"}
DebounceMs == 2
MaxChanges == 3
MaxTime == 5

\* A debounced function that keeps the call already pending.
KeepPending(slot, funcArgs, now) ==
    IF slot.armed THEN slot
    ELSE [armed |-> TRUE, due |-> now + DebounceMs, args |-> funcArgs]

\* The function debounce(func, wait) returns, called with funcArgs:
\* clearTimeout(timeoutId), then setTimeout(() => func(...funcArgs), wait).
debounce(slot, funcArgs, now) ==
    [armed |-> TRUE, due |-> now + DebounceMs, args |-> funcArgs]

IdleSlot == [armed |-> FALSE, due |-> 0, args |-> 0]

\* A file-system event for path: the watcher debounces per path, and the
\* event's value is the number of the change.
FileEvent ==
    /\ watch.pc = "debounce"
    /\ watch.changes < MaxChanges
    /\ \E path \in WatchPaths :
         watch' = [watch EXCEPT
                     !.changes = @ + 1,
                     !.slots[path] = debounce(@, watch.changes + 1, watch.now),
                     !.log = Append(@, [kind |-> "change", path |-> path,
                                        value |-> watch.changes + 1,
                                        at |-> watch.now])]
    /\ UNCHANGED <<uidGen, para, indexVars, toolVars, backlinkVars>>

\* The timer of a path runs out: func(...funcArgs) emits the event.
TimerFires ==
    /\ watch.pc = "debounce"
    /\ \E path \in WatchPaths :
         /\ watch.slots[path].armed
         /\ watch.slots[path].due <= watch.now
         /\ watch' = [watch EXCEPT
                        !.slots[path] = IdleSlot,
                        !.log = Append(@, [kind |-> "emit", path |-> path,
                                           value |-> watch.slots[path].args,
                                           at |-> watch.now])]
    /\ UNCHANGED <<uidGen, para, indexVars, toolVars, backlinkVars>>

\* A millisecond passes; a timer that is due may run late.
WatchTick ==
    /\ watch.pc = "debounce"
    /\ watch.now < MaxTime
    /\ watch' = [watch EXCEPT !.now = @ + 1]
    /\ UNCHANGED <<uidGen, para, indexVars, toolVars, backlinkVars>>

InitDebounce ==
    /\ IndexInit /\ ToolIdle /\ BacklinkIdle
    /\ uidGen = NoUid /\ para = NoPara
    /\ watch = [pc |-> "debounce", now |-> 0, changes |-> 0,
                slots |-> [path \in WatchPaths |-> IdleSlot], log |-> <<>>]

NextDebounce == FileEvent \/ TimerFires \/ WatchTick

SpecDebounce == InitDebounce /\ [][NextDebounce]_vars

Changes(path) ==
    {i \in DOMAIN watch.log :
        watch.log[i].kind = "change" /\ watch.log[i].path = path}

Emits == {k \in DOMAIN watch.log : watch.log[k].kind = "emit"}

\* C32: every emitted event carries the value of the last change to its
\* path, is delivered no sooner than the debounce interval after that
\* change with no change to the path in between, and is the only event
\* for that change; the last change to every path is either still
\* waiting for its interval to pass or has been delivered, whatever
\* happened to other paths meanwhile.
C32_DebouncePerPath ==
    watch.pc = "debounce"
    => /\ \A k \in Emits :
            /\ \E i \in Changes(watch.log[k].path) :
                  /\ i < k
                  /\ watch.log[i].value = watch.log[k].value
                  /\ watch.log[k].at >= watch.log[i].at + DebounceMs
                  /\ \A j \in Changes(watch.log[k].path) : ~(i < j /\ j < k)
            /\ \A j \in Emits :
                  j # k => watch.log[j].value # watch.log[k].value
       /\ \A path \in WatchPaths :
            \A i \in Changes(path) :
               (\A j \in Changes(path) : j <= i)
               => \/ /\ watch.slots[path].armed
                     /\ watch.slots[path].args = watch.log[i].value
                  \/ \E k \in Emits :
                        k > i /\ watch.log[k].value = watch.log[i].value

\* x.md changed twice and y.md once within one interval; one event for
\* x.md with the second value and one for y.md were delivered.
C32_Witness ==
    /\ watch.pc = "debounce"
    /\ Len(watch.log) = 5
    /\ watch.log[1] = [kind |-> "change", path |-> "x.md", value |-> 1, at |-> 0]
    /\ watch.log[2] = [kind |-> "change", path |-> "y.md", value |-> 2, at |-> 1]
    /\ watch.log[3] = [kind |-> "change", path |-> "x.md", value |-> 3, at |-> 1]
    /\ watch.log[4] = [kind |-> "emit", path |-> "y.md", value |-> 2, at |-> 3]
    /\ watch.log[5] = [kind |-> "emit", path |-> "x.md", value |-> 3, at |-> 3]

\* ---------------------------------------------------------------------
\* Git snapshot hook (storage-md/git-snapshot.ts) behind the watcher.
\* ---------------------------------------------------------------------

GitSteps == {"stage", "commit", "tag"}
GitModes == {"commit", "tag"}
MaxGitRetries == 2
MaxWatchEvents == 2
BackoffUnit == 50

\* Every step retried as the option says.
RetriesFromOptions(step, retries) == retries

\* The maxRetries each step passes to executeWithRetry: stageFiles and
\* createTag leave the default this.options.retries, createCommit
\* passes 0.
maxRetriesOf(step, retries) == IF step = "commit" THEN 0 ELSE retries

NoAttempts == [s \in GitSteps |-> 0]
NoDelays == [s \in GitSteps |-> <<>>]

\* The step after a successful one in createSnapshot.
nextStep(step, mode) ==
    CASE step = "stage" -> "commit"
      [] step = "commit" -> IF mode = "tag" THEN "tag" ELSE "done"
      [] OTHER -> "done"

\* The watcher delivers a debounced file event: it emits the file-change
\* event and hands the event to createSnapshot unless a snapshot is
\* running.
WatcherEvent ==
    /\ watch.pc = "snapshot"
    /\ watch.received < MaxWatchEvents
    /\ watch' = [watch EXCEPT
                   !.received = @ + 1,
                   !.emitted = @ + 1,
                   !.step = IF @ \in {"idle", "done", "failed"} THEN "stage" ELSE @,
                   !.attempt = IF watch.step \in {"idle", "done", "failed"}
                               THEN 0 ELSE @,
                   !.attempts = IF watch.step \in {"idle", "done", "failed"}
                                THEN NoAttempts ELSE @,
                   !.delays = IF watch.step \in {"idle", "done", "failed"}
                              THEN NoDelays ELSE @,
                   !.snapshots = IF watch.step \in {"idle", "done", "failed"}
                                 THEN @ + 1 ELSE @]
    /\ UNCHANGED <<uidGen, para, indexVars, toolVars, backlinkVars>>

\* One pass of the loop of executeWithRetry for the current step: fn()
\* succeeds, or throws and is retried after (attempt + 1) * 50 ms, or
\* throws on the last attempt and createSnapshot rejects, which the
\* watcher reports as an error event.
GitAttempt ==
    /\ watch.pc = "snapshot"
    /\ watch.step \in GitSteps
    /\ ~watch.waiting
    /\ \E ok \in BOOLEAN :
         LET step == watch.step
             counted == [watch EXCEPT !.attempts[step] = @ + 1]
         IN  watch' =
                IF ok
                THEN [counted EXCEPT !.step = nextStep(step, watch.mode),
                                     !.attempt = 0]
                ELSE IF watch.attempt = maxRetriesOf(step, watch.retries)
                THEN [counted EXCEPT !.step = "failed",
                                     !.failedStep = step,
                                     !.errors = @ + 1]
                ELSE [counted EXCEPT
                        !.waiting = TRUE,
                        !.delays[step] =
                            Append(@, (watch.attempt + 1) * BackoffUnit)]
    /\ UNCHANGED <<uidGen, para, indexVars, toolVars, backlinkVars>>

\* The backoff timer of executeWithRetry runs out.
BackoffElapses ==
    /\ watch.pc = "snapshot"
    /\ watch.waiting
    /\ watch' = [watch EXCEPT !.waiting = FALSE, !.attempt = @ + 1]
    /\ UNCHANGED <<uidGen, para, indexVars, toolVars, backlinkVars>>

\* countStagedChanges() finds nothing staged: the snapshot succeeds
\* without a commit.
NothingStaged ==
    /\ watch.pc = "snapshot"
    /\ watch.step = "commit"
    /\ watch.attempts["commit"] = 0
    /\ watch' = [watch EXCEPT !.step = "done"]
    /\ UNCHANGED <<uidGen, para, indexVars, toolVars, backlinkVars>>

InitSnapshot ==
    /\ IndexInit /\ ToolIdle /\ BacklinkIdle
    /\ uidGen = NoUid /\ para = NoPara
    /\ \E mode \in GitModes, retries \in 0..MaxGitRetries :
         watch = [pc |-> "snapshot", mode |-> mode, retries |-> retries,
                  step |-> "idle", attempt |-> 0, waiting |-> FALSE,
                  attempts |-> NoAttempts, delays |-> NoDelays,
                  failedStep |-> "none", snapshots |-> 0,
                  received |-> 0, emitted |-> 0, errors |-> 0]

NextSnapshot == WatcherEvent \/ GitAttempt \/ BackoffElapses \/ NothingStaged

SpecSnapshot == InitSnapshot /\ [][NextSnapshot]_vars

\* The attempts of every step stay within allowed(step) + 1, a failed
\* snapshot has used them all on the step that failed, the k-th retry of
\* a step waited k * 50 ms, every file event received was emitted
\* whatever the snapshot did, and a failed snapshot shows only as an
\* error event.
RetriedWithin(allowed(_, _)) ==
    watch.pc = "snapshot"
    => /\ \A s \in GitSteps :
            /\ watch.attempts[s] <= allowed(s, watch.retries) + 1
            /\ \A k \in DOMAIN watch.delays[s] :
                  watch.delays[s][k] = k * BackoffUnit
            /\ Len(watch.delays[s]) <= allowed(s, watch.retries)
       /\ watch.step = "failed"
          => watch.attempts[watch.failedStep]
                = allowed(watch.failedStep, watch.retries) + 1
       /\ watch.emitted = watch.received
       /\ watch.errors <= watch.snapshots
       /\ watch.step = "failed" => watch.errors >= 1

\* N retries for the steps stage and tag, none for commit.
RetriesExceptCommit(step, retries) ==
    IF step \in {"stage", "tag"} THEN retries ELSE 0

\* C33 as stated: each of the steps stage, commit and tag is retried up
\* to N times with linearly growing backoff before the snapshot fails,
\* and a failure neither drops nor blocks file-change events and shows
\* only as an error event.
C33_AsStated == RetriedWithin(RetriesFromOptions)

\* C33: the steps stage and tag are retried up to N times with linearly
\* growing backoff before the snapshot fails and the commit step is
\* attempted once; a failure neither drops nor blocks file-change events
\* and shows only as an error event.
C33_RetryThenFail == RetriedWithin(RetriesExceptCommit)

\* With N = 2 a snapshot failed at the tag step after three attempts
\* that waited 50 and 100 ms, the commit having been made at once.
C33_Witness ==
    /\ watch.pc = "snapshot"
    /\ watch.retries = 2
    /\ watch.step = "failed"
    /\ watch.failedStep = "tag"
    /\ watch.attempts = [stage |-> 1, commit |-> 1, tag |-> 3]
    /\ watch.delays["tag"] = <<50, 100>>
    /\ watch.errors = 1
    /\ watch.emitted = 1

\* ---------------------------------------------------------------------
\* SearchEngine.search: FTS candidates re-ranked with link scores.
\* Scores are kept in units of 1/200, in which 0.7 * fts + 0.3 * link is
\* a whole number for an FTS score in tenths and a link score in
\* twentieths.
\* ---------------------------------------------------------------------

LinkFetchLimit == 10
LinkNormaliser == 20
ScoreUnits == 200

\* FTS scores the engine may report, in tenths.
FtsTenths == {5, 10}

\* The rows findBacklinks(uid, {limit}) and findOutboundLinks(uid, limit)
\* return, strongest first: the other end must be an indexed note.
RECURSIVE StrongestFirst(_)
StrongestFirst(rows) ==
    IF rows = {} THEN <<>>
    ELSE LET best == CHOOSE p \in rows : \A q \in rows :
                        \/ p.strength > q.strength
                        \/ /\ p.strength = q.strength
                           /\ Rank(p.source_uid) * 10 + Rank(p.target_uid)
                                <= Rank(q.source_uid) * 10 + Rank(q.target_uid)
         IN <<best>> \o StrongestFirst(rows \ {best})

backlinkRows(uid, limit) ==
    Take(StrongestFirst({x \in linkRows :
            /\ x.target_uid = uid
            /\ \E n \in notes : n.uid = x.source_uid}), limit)

outboundRows(uid, limit) ==
    Take(StrongestFirst({x \in linkRows :
            /\ x.source_uid = uid
            /\ \E n \in notes : n.uid = x.target_uid}), limit)

RECURSIVE SumStrength(_)
SumStrength(rows) ==
    IF rows = <<>> THEN 0 ELSE Head(rows).strength + SumStrength(Tail(rows))

\* The link score without the cap at 1.0.
UncappedLinkScore(backlinks, outboundLinks) ==
    SumStrength(backlinks) * 2 + SumStrength(outboundLinks)

\* calculateLinkScore, in twentieths: Math.min(totalScore / 20, 1.0).
calculateLinkScore(backlinks, outboundLinks) ==
    Min(SumStrength(backlinks) * 2 + SumStrength(outboundLinks),
        LinkNormaliser)

\* combineScores: ftsScore * 0.7 + linkScore * 0.3.
combineScores(ftsTenths, linkTwentieths) ==
    14 * ftsTenths + 3 * linkTwentieths

\* One pass of the loop of enhanceWithLinkData: the result with its
\* outbound links and combined score, or the result as the FTS engine
\* gave it when a link lookup throws.
enhanceOne(result, lookupFails) ==
    IF lookupFails
    THEN [id |-> result.id, score |-> (ScoreUnits \div 10) * result.fts,
          links |-> 0, fts |-> result.fts, enhanced |-> FALSE]
    ELSE LET backlinks == backlinkRows(result.id, LinkFetchLimit)
             outboundLinks == outboundRows(result.id, LinkFetchLimit)
         IN  [id |-> result.id,
              score |-> combineScores(result.fts,
                            calculateLinkScore(backlinks, outboundLinks)),
              links |-> Len(outboundLinks), fts |-> result.fts,
              enhanced |-> TRUE]

\* The comparator of rerankResults puts a before b.
RanksBefore(a, b) ==
    \/ a.score > b.score
    \/ a.score = b.score /\ a.links >= b.links

\* rerankResults: a stable sort with that comparator.
RECURSIVE rerankResults(_)
rerankResults(results) ==
    IF results = <<>> THEN <<>>
    ELSE LET sorted == rerankResults(SubSeq(results, 1, Len(results) - 1))
             r == results[Len(results)]
             k == Cardinality({i \in DOMAIN sorted : RanksBefore(sorted[i], r)})
         IN  SubSeq(sorted, 1, k) \o <<r>> \o SubSeq(sorted, k + 1, Len(sorted))

\* search(query): the FTS engine returns two candidates; a link lookup
\* may throw for one of them.
Search ==
    \E x \in Nodes, y \in Nodes, fx \in FtsTenths, fy \in FtsTenths,
       failing \in SUBSET Nodes :
       /\ x # y
       /\ failing \subseteq {x}
       /\ LET candidates == <<[id |-> x, fts |-> fx], [id |-> y, fts |-> fy]>>
              enhanced ==
                  [i \in DOMAIN candidates |->
                      enhanceOne(candidates[i], candidates[i].id \in failing)]
          IN  lastOp' = [op |-> "search", note |-> candidates, result |-> "ok",
                         again |-> FALSE, results |-> rerankResults(enhanced)]
       /\ UNCHANGED <<notes, fts, linkRows, toolVars, backlinkVars, utilVars>>

\* Link rows of strength 1 and 10 among four indexed notes.
SearchLinks ==
    {[source_uid |-> "b", target_uid |-> "a", strength |-> 1],
     [source_uid |-> "a", target_uid |-> "b", strength |-> 1],
     [source_uid |-> "a", target_uid |-> "c", strength |-> 1],
     [source_uid |-> "a", target_uid |-> "d", strength |-> 1],
     [source_uid |-> "c", target_uid |-> "d", strength |-> 10],
     [source_uid |-> "d", target_uid |-> "c", strength |-> 10]}

InitSearch ==
    /\ notes = {GraphNote(u) : u \in Nodes}
    /\ fts = EmptyBag
    /\ linkRows \in SUBSET SearchLinks
    /\ lastOp = NoCall
    /\ ToolIdle
    /\ UtilIdle
    /\ BacklinkIdle

NextSearch == Search

SpecSearch == InitSearch /\ [][NextSearch]_vars

RECURSIVE TotalStrength(_)
TotalStrength(rows) ==
    IF rows = {} THEN 0
    ELSE LET r == CHOOSE x \in rows : TRUE
         IN  r.strength + TotalStrength(rows \ {r})

\* link_score of a note in twentieths, from the link table.
LinkScoreOf(u) ==
    Min(2 * TotalStrength({r \in linkRows : r.target_uid = u})
          + TotalStrength({r \in linkRows : r.source_uid = u}),
        LinkNormaliser)

OutboundCount(u) == Cardinality({r \in linkRows : r.source_uid = u})

\* combined = 0.7 * fts_score + 0.3 * link_score, in units of 1/200.
CombinedOf(r) == 14 * r.fts + 3 * LinkScoreOf(r.id)

\* The results of the last search are in the order of score(r)
\* descending, ties by count(r) descending; every result for which
\* scored(r) holds has the combined score, within [0, 1], and of two such
\* results with equal FTS score the one with the larger link score is
\* first.
RankedBy(score(_), count(_), scored(_)) ==
    lastOp.op = "search"
    => LET rs == lastOp.results
       IN  /\ Len(rs) = Len(lastOp.note)
           /\ \A i \in DOMAIN rs :
                 /\ rs[i].score = score(rs[i])
                 /\ scored(rs[i])
                    => /\ rs[i].score = CombinedOf(rs[i])
                       /\ rs[i].score >= 0 /\ rs[i].score <= ScoreUnits
           /\ \A i, j \in DOMAIN rs :
                 i < j
                 => /\ \/ score(rs[i]) > score(rs[j])
                       \/ /\ score(rs[i]) = score(rs[j])
                          /\ count(rs[i]) >= count(rs[j])
                    /\ (scored(rs[i]) /\ scored(rs[j]) /\ rs[i].fts = rs[j].fts)
                       => LinkScoreOf(rs[i].id) >= LinkScoreOf(rs[j].id)

\* C34 as stated: search returns its results sorted by combined =
\* 0.7 fts_score + 0.3 link_score descending with link_score =
\* min((2 * backlink strengths + outbound strengths) / 20, 1), ties by
\* outbound-link count descending; of two candidates with equal FTS
\* score the one with the larger link score is first and combined is
\* within [0, 1].
C34_AsStated ==
    RankedBy(CombinedOf, LAMBDA r : OutboundCount(r.id), LAMBDA r : TRUE)

\* C34: the same for the candidates whose link lookups succeeded; a
\* candidate whose link lookup threw is ranked by its FTS score alone,
\* with no outbound links counted.
C34_RankByCombinedScore ==
    RankedBy(LAMBDA r : IF r.enhanced THEN CombinedOf(r)
                        ELSE (ScoreUnits \div 10) * r.fts,
             LAMBDA r : IF r.enhanced THEN OutboundCount(r.id) ELSE 0,
             LAMBDA r : r.enhanced)

\* Two candidates with FTS score 0.5: a, with three outbound links and
\* one backlink, came second in the FTS order and is ranked first; b has
\* one link each way.
C34_Witness ==
    /\ lastOp.op = "search"
    /\ lastOp.note = <<[id |-> "b", fts |-> 5], [id |-> "a", fts |-> 5]>>
    /\ Len(lastOp.results) = 2
    /\ lastOp.results[1].id = "a"
    /\ lastOp.results[1].enhanced /\ lastOp.results[2].enhanced
    /\ lastOp.results[1].score = 14 * 5 + 3 * 5
    /\ lastOp.results[2].score = 14 * 5 + 3 * 3
    /\ lastOp.results[1].links = 3

\* ------------------------------------------------------------------------
\* BacklinkManager: what a flush leaves behind, and cleanup
\* ------------------------------------------------------------------------

\* C35: no UID taken from the pending set by a flush is dropped: when the
\* flush ends, every UID it took has had its sync started, or is in the
\* pending set again for a later flush.
C35_NoPendingUidDropped ==
    [][\A r \in 1..MaxRunners :
          (runners[r].kind = "flush" /\ runners'[r].kind = "free")
          => Range(runners[r].rest) \subseteq Range(pendingUpdates')]_vars

\* cleanup() has returned: the manager is marked uninitialised.
CleanedUp == ~isInitialized

\* C36: after cleanup() has returned the manager is quiescent: no step
\* enqueues a UID, starts a flush or a sync, or writes a note file.
C36_QuiescentAfterCleanup ==
    [][CleanedUp =>
          /\ pendingUpdates' = <<>>
          /\ \A r \in 1..MaxRunners :
                runners[r].kind = "free" => runners'[r].kind = "free"
          /\ {s.uid : s \in syncs'} \subseteq {s.uid : s \in syncs}
          /\ hdr' = hdr]_vars

\* ------------------------------------------------------------------------
\* SearchEngine: agreement of the index tables
\* ------------------------------------------------------------------------

HasNotesRow(uid) == \E r \in notes : r.uid = uid

\* C39: the index tables agree after every call: a UID with an FTS row or
\* with outgoing link rows has a notes row, and every notes row has an FTS
\* row.
C39_IndexTablesAgree ==
    /\ \A r \in DOMAIN fts : HasNotesRow(r.uid)
    /\ \A r \in linkRows : HasNotesRow(r.source_uid)
    /\ \A r \in notes : \E x \in DOMAIN fts : x.uid = r.uid

\* ------------------------------------------------------------------------
\* LinkGraphManager: findConnectedNotes while neighbour lookups may fail
\* ------------------------------------------------------------------------

\* findConnectedNotes is called while the link lookups of at most one node
\* throw (findOutboundLinks or findBacklinks raising on a database error).
FindConnectedNotesWith ==
    \E startUid \in Nodes, depth \in 1..MaxDepth, direction \in Directions,
       failing \in {{}} \cup {{u} : u \in Nodes} :
       \E t \in {traversalWith(startUid, depth, DefaultLimit, direction, failing)} :
       /\ lastOp' = [op |-> "findConnectedNotes",
                     note |-> [startUid |-> startUid, depth |-> depth,
                               limit |-> DefaultLimit, direction |-> direction],
                     result |-> "ok", again |-> FALSE,
                     nodes |-> returned(t.resultNodes, DefaultLimit),
                     expanded |-> t.expanded,
                     failing |-> failing]
       /\ UNCHANGED <<notes, fts, linkRows, toolVars, backlinkVars, utilVars>>

\* Any of the graphs over notes that are all indexed.
InitConnected ==
    /\ notes = {GraphNote(u) : u \in Nodes}
    /\ fts = EmptyBag
    /\ linkRows \in SUBSET GraphLinks
    /\ lastOp = NoCall
    /\ ToolIdle
    /\ UtilIdle
    /\ BacklinkIdle

NextConnected == FindConnectedNotesWith

SpecConnected == InitConnected /\ [][NextConnected]_vars

\* The indexed notes other than the start within depth hops of it.
Reachable(q) == Within(q.startUid, q.depth, q.direction) \ {q.startUid}

\* C40: when fewer than limit notes are within depth hops of the start in
\* the direction asked for, findConnectedNotes returns every one of them
\* (the start itself is left aside here).
C40_CompleteBelowLimit ==
    lastOp.op = "findConnectedNotes"
    => (Cardinality(Reachable(lastOp.note)) < lastOp.note.limit
        => Reachable(lastOp.note) \subseteq Ids(lastOp.nodes))

====
